---- MODULE Spec2Model ----
(***************************************************************************)
(* ESGLend: the Assessment & Adjustment Engine (pricing, risk scoring and  *)
(* SFDR classification) over the loan database.                            *)
(*                                                                         *)
(* Number representation.  Scores, rates, margins and probabilities are    *)
(* integers in hundredths (the engines round every reported score to two   *)
(* decimals); intermediate values are exact rationals <<num, den>>.  The   *)
(* model computes in exact arithmetic where the program uses IEEE doubles. *)
(* A nullable numeric column is <<>> (NULL) or <<v>>; a nullable string    *)
(* column is the string NoneStr or its value.                              *)
(***************************************************************************)
EXTENDS Integers, Sequences, FiniteSets, TLC

VARIABLES
    loans,              \* table loans: loan id -> row, for the ids that exist
    kpis,               \* table esg_kpis, in id order
    covenants,          \* table covenants, in id order
    verifications,      \* table verifications, in id order
    pricing_history,    \* ledger pricing_history, in id order
    risk_assessments,   \* ledger risk_assessments, in id order
    sfdr_reports,       \* ledger sfdr_reports, in id order
    now,                \* datetime.now(), in days
    unchanged_since,    \* loans whose data was not edited since their last repricing
    sessions,           \* the update_loan_pricing invocations in flight, one per request
    esg_measurements,   \* table esg_measurements, in id order
    last                \* the most recent call: operation, arguments, outcome, result

vars == <<loans, kpis, covenants, verifications, pricing_history,
          risk_assessments, sfdr_reports, now, unchanged_since, sessions,
          esg_measurements, last>>

db == <<loans, kpis, covenants, verifications, pricing_history,
        risk_assessments, sfdr_reports>>

----------------------------------------------------------------------------
(* Bounds of the model *)

MaxScore == 10000
MaxLoans == 2
MaxKpis == 2
MaxVal == 3
MaxRows == 3
MaxNow == 1

----------------------------------------------------------------------------
(* Values *)

Scale == 100

Null == <<>>
NoneStr == "<None>"

\* the requests served at the same time, each with a database session of its own
Workers == {"A", "B"}
Idle == [state |-> "idle"]
NoSessions == [w \in Workers |-> Idle]

Some(v) == <<v>>
Val(x) == x[1]

\* Python truthiness of an optional float: None and 0.0 are falsy
Truthy(x) == x # Null /\ Val(x) # 0

Abs(i) == IF i < 0 THEN -i ELSE i
MinOf(S) == CHOOSE x \in S : \A y \in S : x <= y
MaxOf(S) == CHOOSE x \in S : \A y \in S : x >= y

\* exact rationals <<n, d>>, d > 0
RLe(p, q) == p[1] * q[2] <= q[1] * p[2]
RLt(p, q) == p[1] * q[2] < q[1] * p[2]
RAdd(p, q) == <<p[1] * q[2] + q[1] * p[2], p[2] * q[2]>>
RMin(p, q) == IF RLe(p, q) THEN p ELSE q

RECURSIVE RSum(_)
RSum(s) == IF s = <<>> THEN <<0, 1>> ELSE RAdd(s[1], RSum(Tail(s)))

\* sum(s) / len(s)
RMean(s) == LET t == RSum(s) IN <<t[1], t[2] * Len(s)>>

\* round(n/d) to an integer, ties to even (Python's round)
RoundHalfEven(n, d) ==
    LET q == n \div d
        r == n % d
    IN  IF 2 * r < d THEN q
        ELSE IF 2 * r > d THEN q + 1
        ELSE IF q % 2 = 0 THEN q ELSE q + 1

\* round(x, 2) of the rational x, in hundredths
Round2(x) == RoundHalfEven(x[1] * Scale, x[2])

----------------------------------------------------------------------------
(* LoanPricingEngine: the tier table and the pure tier functions *)

\* self.pricing_tiers, in insertion order; adjustments in hundredths of a point
pricing_tiers_ascending ==
    << [tier |-> "critical",  threshold |-> 0,  adjustment |-> 50],
       [tier |-> "poor",      threshold |-> 40, adjustment |-> 25],
       [tier |-> "fair",      threshold |-> 60, adjustment |-> 0],
       [tier |-> "good",      threshold |-> 75, adjustment |-> -25],
       [tier |-> "excellent", threshold |-> 90, adjustment |-> -50] >>

pricing_tiers ==
    << [tier |-> "excellent", threshold |-> 90, adjustment |-> -50],
       [tier |-> "good",      threshold |-> 75, adjustment |-> -25],
       [tier |-> "fair",      threshold |-> 60, adjustment |-> 0],
       [tier |-> "poor",      threshold |-> 40, adjustment |-> 25],
       [tier |-> "critical",  threshold |-> 0,  adjustment |-> 50] >>

\* the first tier, in dict order, whose threshold the score meets
determine_pricing_tier(esg_score) ==
    LET hits == {i \in 1..Len(pricing_tiers) :
                    esg_score >= pricing_tiers[i].threshold * Scale}
    IN  IF hits = {} THEN "critical" ELSE pricing_tiers[MinOf(hits)].tier

TierConfig(tier) ==
    pricing_tiers[CHOOSE i \in 1..Len(pricing_tiers) : pricing_tiers[i].tier = tier]

\* the adjustment with its sign reversed: a discount for a low score
calculate_margin_adjustment_sign_reversed(esg_score) ==
    0 - TierConfig(determine_pricing_tier(esg_score)).adjustment

calculate_margin_adjustment(esg_score) ==
    TierConfig(determine_pricing_tier(esg_score)).adjustment

----------------------------------------------------------------------------
(* LoanPricingEngine.calculate_esg_performance_score *)

\* str.lower() on the category strings of the model
Lower(str) ==
    CASE str = "Environmental" -> "environmental"
      [] str = "Social" -> "social"
      [] str = "Governance" -> "governance"
      [] OTHER -> str

\* db.query(ESGKpi).filter(ESGKpi.loan_id == loan_id).all()
KpisOf(loan_id) == SelectSeq(kpis, LAMBDA k : k.loan_id = loan_id)

target_progress(kpi) == Abs(Val(kpi.target_value) - Val(kpi.baseline_value))
current_progress(kpi) == Abs(Val(kpi.current_value) - Val(kpi.baseline_value))

\* the guards of lines 39 and 44: all three values truthy, target off baseline
HasAchievement(kpi) ==
    /\ Truthy(kpi.target_value) /\ Truthy(kpi.current_value) /\ Truthy(kpi.baseline_value)
    /\ target_progress(kpi) > 0

achievement_unclamped(kpi) == <<current_progress(kpi) * 100, target_progress(kpi)>>

\* min((current_progress / target_progress) * 100, 100)
achievement(kpi) ==
    RMin(<<current_progress(kpi) * 100, target_progress(kpi)>>, <<100, 1>>)

KpiCategory(kpi) ==
    IF kpi.kpi_category # NoneStr THEN Lower(kpi.kpi_category) ELSE "environmental"

ScoredCategories == {"environmental", "social", "governance"}

\* the loop of lines 38-50: the achievements appended to each category's list
category_scores(loan_id) ==
    [c \in ScoredCategories |->
        LET ks == KpisOf(loan_id)
            S(k) == HasAchievement(k) /\ KpiCategory(k) = c
                    /\ KpiCategory(k) \in ScoredCategories
            RECURSIVE Collect(_)
            Collect(i) ==
                IF i > Len(ks) THEN <<>>
                ELSE (IF S(ks[i]) THEN <<achievement(ks[i])>> ELSE <<>>) \o Collect(i + 1)
        IN  Collect(1)]

\* weights, in hundredths
weights ==
    << [category |-> "environmental", weight |-> 40],
       [category |-> "social", weight |-> 30],
       [category |-> "governance", weight |-> 30] >>

\* lines 54-60: total_score, the sum of avg_score * weight over the categories
\* that have a score, a rational
total_score(scores) ==
    LET RECURSIVE Acc(_)
        Acc(i) ==
            IF i > Len(weights) THEN <<0, 1>>
            ELSE LET avg_score == RMean(scores[weights[i].category])
                 IN  IF scores[weights[i].category] # <<>>
                     THEN RAdd(<<avg_score[1] * weights[i].weight, avg_score[2]>>, Acc(i + 1))
                     ELSE Acc(i + 1)
    IN  Acc(1)

total_weight_of_all(scores) == 100

\* lines 55-61: total_weight, the sum of the weights of those categories
total_weight(scores) ==
    LET RECURSIVE Acc(_)
        Acc(i) ==
            IF i > Len(weights) THEN 0
            ELSE (IF scores[weights[i].category] # <<>> THEN weights[i].weight ELSE 0)
                 + Acc(i + 1)
    IN  Acc(1)

NeutralScore == 5000

\* round(., 2)
esg_round(x) == Round2(x)

calculate_esg_performance_score(loan_id) ==
    IF KpisOf(loan_id) = <<>> THEN NeutralScore
    ELSE LET scores == category_scores(loan_id)
             ts == total_score(scores)
             tw == total_weight(scores)
         IN  IF tw > 0 THEN esg_round(<<ts[1], ts[2] * tw>>) ELSE NeutralScore

----------------------------------------------------------------------------
(* The calls of the pure tier functions *)

NoCall == [op |-> "none", args |-> <<>>, outcome |-> "none", result |-> <<>>]

Call(op, args, outcome, result) ==
    [op |-> op, args |-> args, outcome |-> outcome, result |-> result]

Scores == 0..MaxScore

\* a call of a pure function is drawn by Init and answered by its action
Pending(op) == last.op = op /\ last.outcome = "pending"

DeterminePricingTier ==
    /\ Pending("determine_pricing_tier")
    /\ last' = Call(last.op, last.args, "ok",
                    determine_pricing_tier(last.args.esg_score))
    /\ UNCHANGED <<db, now, unchanged_since, sessions, esg_measurements>>

CalculateMarginAdjustment ==
    /\ Pending("calculate_margin_adjustment")
    /\ last' = Call(last.op, last.args, "ok",
                    calculate_margin_adjustment(last.args.esg_score))
    /\ UNCHANGED <<db, now, unchanged_since, sessions, esg_measurements>>

EmptyDb ==
    /\ loans = <<>>
    /\ kpis = <<>>
    /\ covenants = <<>>
    /\ verifications = <<>>
    /\ pricing_history = <<>>
    /\ risk_assessments = <<>>
    /\ sfdr_reports = <<>>
    /\ now = 0
    /\ unchanged_since = {}
    /\ sessions = NoSessions
    /\ esg_measurements = <<>>

InitTier ==
    /\ EmptyDb
    /\ \E op \in {"determine_pricing_tier", "calculate_margin_adjustment"}, s \in Scores :
         last = Call(op, [esg_score |-> s], "pending", <<>>)

----------------------------------------------------------------------------
(* Rows of the tables *)

OptVals == {Null} \cup {Some(v) : v \in 0..MaxVal}

KpiCategories == {"environmental", "social", "Governance", NoneStr}

\* a row of loans as LoanService.create_loan stores it: the derived columns unset
NewLoan(amount, interest_rate, base_margin, status, sustainability_linked, maturity_date) ==
    [ amount |-> amount,
      interest_rate |-> interest_rate,
      base_margin |-> base_margin,
      current_margin |-> Null,
      maturity_date |-> maturity_date,
      status |-> status,
      sustainability_linked |-> sustainability_linked,
      esg_performance_score |-> Null,
      pricing_tier |-> NoneStr,
      margin_adjustment |-> Some(0),
      last_pricing_update |-> Null,
      risk_score |-> Null,
      risk_category |-> NoneStr ]

KpiRows(names) ==
    [ loan_id : {1},
      kpi_name : names,
      kpi_category : KpiCategories,
      target_value : OptVals,
      current_value : OptVals,
      baseline_value : OptVals ]

Tables(rows, n) == UNION {[1..m -> rows] : m \in 0..n}

\* one KPI in each scored category, with all three values present and non-zero
OnePerCategory ==
    LET V == {Some(v) : v \in 1..MaxVal}
        R(c) == [ loan_id : {1}, kpi_name : {"Energy intensity"}, kpi_category : {c},
                  target_value : V, current_value : V, baseline_value : V ]
    IN  {<<e, so, g>> : e \in R("environmental"), so \in R("social"), g \in R("Governance")}

----------------------------------------------------------------------------
(* LoanPricingEngine.update_loan_pricing *)

QueryLoan_unfiltered(loan_id) ==
    IF DOMAIN loans # {} THEN <<MinOf(DOMAIN loans)>> ELSE <<>>

\* the rows the three engines have written so far
LedgerRows == Len(pricing_history) + Len(risk_assessments) + Len(sfdr_reports)

\* self.db.query(Loan).filter(Loan.id == loan_id).first(): <<>> is None,
\* <<id>> the row found
QueryLoan(loan_id) == IF loan_id \in DOMAIN loans THEN <<loan_id>> ELSE <<>>

DefaultBaseMargin == 200
DefaultBaseRate == 400

base_margin_compounding(loan) ==
    IF Truthy(loan.current_margin) THEN Val(loan.current_margin)
    ELSE IF Truthy(loan.base_margin) THEN Val(loan.base_margin) ELSE DefaultBaseMargin

\* loan.base_margin or 2.0
base_margin(loan) ==
    IF Truthy(loan.base_margin) THEN Val(loan.base_margin) ELSE DefaultBaseMargin

\* loan.interest_rate or 4.0
base_rate(loan) ==
    IF Truthy(loan.interest_rate) THEN Val(loan.interest_rate) ELSE DefaultBaseRate

DefaultReason(tier) ==
    CASE tier = "excellent" -> "ESG performance tier: excellent"
      [] tier = "good" -> "ESG performance tier: good"
      [] tier = "fair" -> "ESG performance tier: fair"
      [] tier = "poor" -> "ESG performance tier: poor"
      [] tier = "critical" -> "ESG performance tier: critical"

\* what one call computes from the loan row and the KPI table (lines 91-106)
Pricing(loan_id, loan) ==
    LET esg_score == calculate_esg_performance_score(loan_id)
        margin_adjustment == calculate_margin_adjustment(esg_score)
        new_margin == base_margin(loan) + margin_adjustment
    IN  [ esg_performance_score |-> esg_score,
          pricing_tier |-> determine_pricing_tier(esg_score),
          base_rate |-> base_rate(loan),
          base_margin |-> base_margin(loan),
          margin_adjustment |-> margin_adjustment,
          new_margin |-> new_margin,
          new_total_rate |-> base_rate(loan) + new_margin,
          previous_total_rate |-> base_rate(loan) + base_margin(loan),
          annual_savings |-> IF margin_adjustment < 0
                             THEN Round2(<<loan.amount * Abs(margin_adjustment), Scale * 100>>)
                             ELSE 0,
          annual_cost |-> IF margin_adjustment > 0
                          THEN Round2(<<loan.amount * margin_adjustment, Scale * 100>>)
                          ELSE 0 ]

PricedLoan_keeps_margin(loan, p, t) ==
    [loan EXCEPT !.esg_performance_score = Some(p.esg_performance_score),
                 !.pricing_tier = p.pricing_tier,
                 !.margin_adjustment = Some(p.margin_adjustment),
                 !.last_pricing_update = Some(t)]

\* the adjustment left as the loan had it
PricedLoan_keeps_adjustment(loan, p, t) ==
    [loan EXCEPT !.esg_performance_score = Some(p.esg_performance_score),
                 !.pricing_tier = p.pricing_tier,
                 !.current_margin = Some(p.new_margin),
                 !.last_pricing_update = Some(t)]

\* lines 109-113: the five columns the call sets on the loan
PricedLoan(loan, p, t) ==
    [loan EXCEPT !.esg_performance_score = Some(p.esg_performance_score),
                 !.pricing_tier = p.pricing_tier,
                 !.current_margin = Some(p.new_margin),
                 !.margin_adjustment = Some(p.margin_adjustment),
                 !.last_pricing_update = Some(t)]

PricingHistoryRow_of_first_loan(loan_id, p, t, user_id, reason) ==
    [ loan_id |-> 1,
      effective_date |-> t,
      base_rate |-> p.base_rate,
      margin |-> p.new_margin,
      total_rate |-> p.new_total_rate,
      esg_performance_score |-> p.esg_performance_score,
      adjustment_reason |-> IF reason # NoneStr THEN reason ELSE DefaultReason(p.pricing_tier),
      adjustment_amount |-> p.margin_adjustment,
      created_by |-> user_id ]

\* lines 116-126
PricingHistoryRow(loan_id, p, t, user_id, reason) ==
    [ loan_id |-> loan_id,
      effective_date |-> t,
      base_rate |-> p.base_rate,
      margin |-> p.new_margin,
      total_rate |-> p.new_total_rate,
      esg_performance_score |-> p.esg_performance_score,
      adjustment_reason |-> IF reason # NoneStr THEN reason ELSE DefaultReason(p.pricing_tier),
      adjustment_amount |-> p.margin_adjustment,
      created_by |-> user_id ]

\* the callers: the /pricing/calculate endpoint, and a bare engine call
ApiCaller == [user_id |-> Some(1), reason |-> "Dynamic pricing calculation via API"]
EngineCaller == [user_id |-> Null, reason |-> NoneStr]
PricingCallers == {ApiCaller, EngineCaller}

UpdateLoanPricing(loan_id, caller) ==
    LET found == QueryLoan(loan_id)
        args == [loan_id |-> loan_id, user_id |-> caller.user_id, reason |-> caller.reason]
    IN  IF found = <<>>
        THEN /\ last' = Call("update_loan_pricing", args, "not_found", <<>>)
             /\ UNCHANGED <<db, now, unchanged_since, sessions, esg_measurements>>
        ELSE LET id == found[1]
             IN  \E p \in {Pricing(loan_id, loans[id])} :
                 /\ LedgerRows < MaxRows
                 /\ loans' = [loans EXCEPT ![id] = PricedLoan(loans[id], p, now)]
                 /\ pricing_history' =
                      Append(pricing_history,
                             PricingHistoryRow(loan_id, p, now, caller.user_id, caller.reason))
                 /\ unchanged_since' = unchanged_since \cup {loan_id}
                 /\ last' = Call("update_loan_pricing", args, "ok", p)
                 /\ UNCHANGED <<kpis, covenants, verifications, risk_assessments,
                                sfdr_reports, now, sessions, esg_measurements>>

----------------------------------------------------------------------------
(* RiskScoringEngine: the three sub-scores *)

\* Covenant.loan_id == loan_id, Covenant.status != "terminated"
CovenantsOf(loan_id) ==
    SelectSeq(covenants, LAMBDA c : c.loan_id = loan_id /\ c.status # "terminated")

Measured(covenant) == covenant.current_value # Null /\ covenant.threshold # Null

MinimumTypes == {"minimum_ebitda", "minimum_equity", "minimum_coverage"}
MaximumTypes == {"maximum_leverage", "maximum_debt"}

\* the division by covenant.threshold of lines 43, 46 and 49 raises on 0
BreachProbabilityRaises(loan_id) ==
    \E i \in 1..Len(CovenantsOf(loan_id)) :
        /\ Measured(CovenantsOf(loan_id)[i])
        /\ Val(CovenantsOf(loan_id)[i].threshold) = 0

\* a rational with a positive denominator
RNorm(n, d) == IF d < 0 THEN <<-n, -d>> ELSE <<n, d>>

\* lines 41-49
distance(covenant) ==
    IF covenant.covenant_type \in MinimumTypes
    THEN RNorm(Val(covenant.current_value) - Val(covenant.threshold), Val(covenant.threshold))
    ELSE IF covenant.covenant_type \in MaximumTypes
    THEN RNorm(Val(covenant.threshold) - Val(covenant.current_value), Val(covenant.threshold))
    ELSE RNorm(Val(covenant.current_value) - Val(covenant.threshold), Val(covenant.threshold))

\* lines 52-59, in tenths
breach_indicator(covenant) ==
    LET d == distance(covenant)
    IN  IF RLt(d, <<0, 1>>) THEN 10
        ELSE IF RLt(d, <<1, 10>>) THEN 8
        ELSE IF RLt(d, <<2, 10>>) THEN 5
        ELSE 1

RECURSIVE SumSeq(_)
SumSeq(s) == IF s = <<>> THEN 0 ELSE s[1] + SumSeq(Tail(s))

\* [f(x) for x in s if keep(x)]
MapSelect(s, keep(_), f(_)) ==
    LET RECURSIVE Go(_)
        Go(i) ==
            IF i > Len(s) THEN <<>>
            ELSE (IF keep(s[i]) THEN <<f(s[i])>> ELSE <<>>) \o Go(i + 1)
    IN  Go(1)

calculate_covenant_breach_probability(loan_id) ==
    LET breach_indicators == MapSelect(CovenantsOf(loan_id), Measured, breach_indicator)
    IN  IF breach_indicators = <<>> THEN 0
        ELSE Round2(<<SumSeq(breach_indicators) * 10, Len(breach_indicators)>>)

\* lines 80-87: progress = current_distance / target_distance
esg_risk_factor(kpi) ==
    LET progress == <<current_progress(kpi), target_progress(kpi)>>
    IN  IF RLt(progress, <<1, 4>>) THEN 80
        ELSE IF RLt(progress, <<1, 2>>) THEN 60
        ELSE IF RLt(progress, <<3, 4>>) THEN 40
        ELSE 20

NeutralRisk == 5000

calculate_esg_risk_score(loan_id) ==
    LET risk_factors == MapSelect(KpisOf(loan_id), HasAchievement, esg_risk_factor)
    IN  IF risk_factors = <<>> THEN NeutralRisk
        ELSE Round2(<<SumSeq(risk_factors), Len(risk_factors)>>)

\* status_risk.get(loan.status, 50)
status_risk(status) ==
    CASE status = "active" -> 20
      [] status = "under_review" -> 40
      [] status = "at_risk" -> 70
      [] status = "defaulted" -> 100
      [] status = "restructured" -> 60
      [] OTHER -> 50

RecentLimit == 5

\* order_by(verification_date.desc()).limit(5): the indices of the rows kept.
\* The clock is strictly increasing between two inserts, so rows of one date
\* are ordered by insertion.
RecentVerifications(loan_id) ==
    LET mine == {i \in 1..Len(verifications) : verifications[i].loan_id = loan_id}
        Newer(i, j) ==
            \/ verifications[i].verification_date > verifications[j].verification_date
            \/ /\ verifications[i].verification_date = verifications[j].verification_date
               /\ i > j
    IN  {i \in mine : Cardinality({j \in mine : Newer(j, i)}) < RecentLimit}

MaturityNear == 30
MaturitySoon == 90

\* lines 121-128: (loan.maturity_date - datetime.now()).days
maturity_risk(loan, t) ==
    LET days_to_maturity == Val(loan.maturity_date) - t
    IN  IF days_to_maturity < MaturityNear THEN 80
        ELSE IF days_to_maturity < MaturitySoon THEN 50
        ELSE 20

\* the three sub-indicators always averaged, a missing one counted as 0
calculate_financial_risk_score_zero_filled(loan_id, t) ==
    IF QueryLoan(loan_id) = <<>> THEN NeutralRisk
    ELSE LET loan == loans[QueryLoan(loan_id)[1]]
             recent == RecentVerifications(loan_id)
             failed == {i \in recent : verifications[i].status = "failed"}
             risk_indicators ==
                 << <<status_risk(loan.status), 1>>,
                    IF recent # {}
                    THEN <<Cardinality(failed) * 100, Cardinality(recent)>>
                    ELSE <<0, 1>>,
                    IF loan.maturity_date # Null
                    THEN <<maturity_risk(loan, t), 1>>
                    ELSE <<0, 1>> >>
         IN  Round2(RMean(risk_indicators))

calculate_financial_risk_score(loan_id, t) ==
    IF QueryLoan(loan_id) = <<>> THEN NeutralRisk
    ELSE LET loan == loans[QueryLoan(loan_id)[1]]
             recent == RecentVerifications(loan_id)
             failed == {i \in recent : verifications[i].status = "failed"}
             risk_indicators ==
                 <<(<<status_risk(loan.status), 1>>)>>
                 \o (IF recent # {}
                     THEN <<(<<Cardinality(failed) * 100, Cardinality(recent)>>)>>
                     ELSE <<>>)
                 \o (IF loan.maturity_date # Null
                     THEN <<(<<maturity_risk(loan, t), 1>>)>>
                     ELSE <<>>)
         IN  Round2(RMean(risk_indicators))

----------------------------------------------------------------------------
(* RiskScoringEngine: the composite score and create_risk_assessment *)

overall_risk_unweighted(covenant_risk, esg_risk, financial_risk) ==
    Round2(<<covenant_risk + esg_risk + financial_risk, 3 * Scale>>)

\* round(covenant_risk * 0.4 + esg_risk * 0.3 + financial_risk * 0.3, 2)
overall_risk(covenant_risk, esg_risk, financial_risk) ==
    Round2(<<4 * covenant_risk + 3 * esg_risk + 3 * financial_risk, 10 * Scale>>)

calculate_comprehensive_risk_score(loan_id, t) ==
    overall_risk(calculate_covenant_breach_probability(loan_id),
                 calculate_esg_risk_score(loan_id),
                 calculate_financial_risk_score(loan_id, t))

\* self.risk_categories, in insertion order
risk_categories ==
    << [category |-> "low",      min |-> 0,  max |-> 25],
       [category |-> "moderate", min |-> 25, max |-> 50],
       [category |-> "elevated", min |-> 50, max |-> 75],
       [category |-> "high",     min |-> 75, max |-> 100] >>

categorize_risk_inclusive_max(risk_score) ==
    LET hits == {i \in 1..Len(risk_categories) :
                    /\ risk_categories[i].min * Scale <= risk_score
                    /\ risk_score <= risk_categories[i].max * Scale}
    IN  IF hits # {} THEN risk_categories[MinOf(hits)].category
        ELSE IF risk_score >= 75 * Scale THEN "high" ELSE "low"

categorize_risk(risk_score) ==
    LET hits == {i \in 1..Len(risk_categories) :
                    /\ risk_categories[i].min * Scale <= risk_score
                    /\ risk_score < risk_categories[i].max * Scale}
    IN  IF hits # {} THEN risk_categories[MinOf(hits)].category
        ELSE IF risk_score >= 75 * Scale THEN "high" ELSE "low"

\* lines 164-170: the covenant's projected breach date, <<>> when it has none
projected_breach(covenant, t) ==
    IF /\ Measured(covenant)
       /\ covenant.covenant_type \in MinimumTypes
       /\ 10 * Val(covenant.current_value) < 11 * Val(covenant.threshold)
       /\ Val(covenant.threshold) # 0
    THEN LET months_to_breach ==
                 RNorm(20 * (Val(covenant.current_value) - Val(covenant.threshold)),
                       Val(covenant.threshold))
         IN  IF RLt(<<0, 1>>, months_to_breach) /\ RLt(months_to_breach, <<12, 1>>)
             THEN <<t + (months_to_breach[1] * 30) \div months_to_breach[2]>>
             ELSE <<>>
    ELSE <<>>

predict_breach_date(loan_id, t) ==
    LET cs == CovenantsOf(loan_id)
        dates == {projected_breach(cs[i], t)[1] :
                    i \in {j \in 1..Len(cs) : projected_breach(cs[j], t) # <<>>}}
    IN  IF dates = {} THEN Null ELSE Some(MinOf(dates))

Severity(score, high, moderate) ==
    IF score > high * Scale THEN "high"
    ELSE IF score > moderate * Scale THEN "moderate" ELSE "low"

generate_risk_factors(loan_id, t) ==
    [ covenant_risk |-> Severity(calculate_covenant_breach_probability(loan_id), 50, 25),
      esg_risk |-> Severity(calculate_esg_risk_score(loan_id), 60, 40),
      financial_risk |-> Severity(calculate_financial_risk_score(loan_id, t), 60, 40) ]

generate_recommendations(loan_id, risk_score) ==
    (IF categorize_risk(risk_score) \in {"elevated", "high"}
     THEN << "Schedule immediate stakeholder meeting to address risk factors",
             "Increase monitoring frequency to weekly reviews",
             "Develop detailed risk mitigation action plan" >>
     ELSE <<>>)
    \o (IF calculate_covenant_breach_probability(loan_id) > 50 * Scale
        THEN << "Consider covenant amendment or waiver negotiations" >>
        ELSE <<>>)
    \o (IF calculate_esg_risk_score(loan_id) > 60 * Scale
        THEN << "Engage with borrower on ESG improvement roadmap",
                "Consider requiring third-party ESG audit" >>
        ELSE <<>>)
    \o (IF categorize_risk(risk_score) = "low"
        THEN << "Maintain current monitoring schedule",
                "Continue positive engagement with borrower" >>
        ELSE <<>>)

confidence_uncapped(loan_id) == 50 + Len(KpisOf(loan_id)) * 5

\* min(50 + (data_points * 5), 95)
confidence(loan_id) ==
    IF 50 + Len(KpisOf(loan_id)) * 5 < 95 THEN 50 + Len(KpisOf(loan_id)) * 5 ELSE 95

\* lines 254-266
RiskAssessmentRow(loan_id, t) ==
    LET risk == calculate_comprehensive_risk_score(loan_id, t)
    IN  [ loan_id |-> loan_id,
          assessment_date |-> t,
          risk_score |-> risk,
          risk_category |-> categorize_risk(risk),
          covenant_breach_probability |-> calculate_covenant_breach_probability(loan_id),
          esg_risk_score |-> calculate_esg_risk_score(loan_id),
          financial_risk_score |-> calculate_financial_risk_score(loan_id, t),
          predicted_breach_date |-> predict_breach_date(loan_id, t),
          confidence_level |-> confidence(loan_id),
          risk_factors |-> generate_risk_factors(loan_id, t),
          recommendations |-> generate_recommendations(loan_id, risk) ]

\* the trend taken over the rows of every loan
calculate_risk_trend_of_any_loan(ledger, loan_id) ==
    LET mine == 1..Len(ledger)
        Newer(i, j) ==
            \/ ledger[i].assessment_date > ledger[j].assessment_date
            \/ ledger[i].assessment_date = ledger[j].assessment_date /\ i > j
        Nth(n) == CHOOSE i \in mine : Cardinality({j \in mine : Newer(j, i)}) = n - 1
    IN  IF Cardinality(mine) < 2 THEN "stable"
        ELSE IF ledger[Nth(1)].risk_score > ledger[Nth(2)].risk_score + 5 * Scale
        THEN "increasing"
        ELSE IF ledger[Nth(1)].risk_score < ledger[Nth(2)].risk_score - 5 * Scale
        THEN "decreasing"
        ELSE "stable"

\* _calculate_risk_trend over the ledger as given: the loan's rows by
\* assessment_date descending (rows of one date by insertion), the first two
calculate_risk_trend(ledger, loan_id) ==
    LET mine == {i \in 1..Len(ledger) : ledger[i].loan_id = loan_id}
        Newer(i, j) ==
            \/ ledger[i].assessment_date > ledger[j].assessment_date
            \/ ledger[i].assessment_date = ledger[j].assessment_date /\ i > j
        Nth(n) == CHOOSE i \in mine : Cardinality({j \in mine : Newer(j, i)}) = n - 1
    IN  IF Cardinality(mine) < 2 THEN "stable"
        ELSE IF ledger[Nth(1)].risk_score > ledger[Nth(2)].risk_score + 5 * Scale
        THEN "increasing"
        ELSE IF ledger[Nth(1)].risk_score < ledger[Nth(2)].risk_score - 5 * Scale
        THEN "decreasing"
        ELSE "stable"

CreateRiskAssessment(loan_id) ==
    LET found == QueryLoan(loan_id)
        args == [loan_id |-> loan_id]
    IN  IF found = <<>>
        THEN /\ last' = Call("create_risk_assessment", args, "not_found", <<>>)
             /\ UNCHANGED <<db, now, unchanged_since, sessions, esg_measurements>>
        ELSE IF BreachProbabilityRaises(loan_id)
        THEN /\ last' = Call("create_risk_assessment", args, "ZeroDivisionError", <<>>)
             /\ UNCHANGED <<db, now, unchanged_since, sessions, esg_measurements>>
        ELSE LET id == found[1]
             IN  \E row \in {RiskAssessmentRow(loan_id, now)} :
                 /\ LedgerRows < MaxRows
                 /\ loans' = [loans EXCEPT ![id].risk_score = Some(row.risk_score),
                                           ![id].risk_category = row.risk_category]
                 /\ risk_assessments' = Append(risk_assessments, row)
                 /\ last' = Call("create_risk_assessment", args, "ok",
                                 [ overall_risk_score |-> row.risk_score,
                                   risk_category |-> row.risk_category,
                                   covenant_breach_probability |-> row.covenant_breach_probability,
                                   esg_risk_score |-> row.esg_risk_score,
                                   financial_risk_score |-> row.financial_risk_score,
                                   predicted_breach_date |-> row.predicted_breach_date,
                                   confidence_level |-> row.confidence_level,
                                   trend |-> calculate_risk_trend(risk_assessments', loan_id) ])
                 /\ UNCHANGED <<kpis, covenants, verifications, pricing_history,
                                sfdr_reports, now, unchanged_since, sessions, esg_measurements>>

----------------------------------------------------------------------------
(* SFDRComplianceEngine *)

\* the keywords the engine looks for that occur in kpi_name.lower(), for the
\* KPI names of the model
Keywords(kpi_name) ==
    CASE kpi_name = "Carbon Emissions" -> {"carbon", "emission"}
      [] kpi_name = "GHG Intensity" -> {"ghg"}
      [] kpi_name = "Renewable Energy Share" -> {"renewable", "energy"}
      [] kpi_name = "Energy intensity" -> {"energy"}
      [] kpi_name = "Water Usage" -> {"water"}
      [] kpi_name = "Waste Water Pollution" -> {"waste", "water", "waste water", "pollution"}
      [] kpi_name = "Board Gender Diversity" -> {"gender", "diversity"}
      [] OTHER -> {}

\* kw in kpi.kpi_name.lower()
NameHas(kpi, kws) == Keywords(kpi.kpi_name) \cap kws # {}

Count(s, keep(_)) == Cardinality({i \in 1..Len(s) : keep(s[i])})

Article9Targets == 5
Article8Targets == 2

classify_loan_sfdr_article_truthy(loan_id) ==
    LET loan == loans[QueryLoan(loan_id)[1]]
        meaningful_targets ==
            Count(KpisOf(loan_id),
                  LAMBDA k : Truthy(k.target_value) /\ Truthy(k.baseline_value))
    IN  IF ~loan.sustainability_linked THEN "article_6"
        ELSE IF KpisOf(loan_id) = <<>> THEN "article_6"
        ELSE IF meaningful_targets >= Article9Targets THEN "article_9"
        ELSE IF meaningful_targets >= Article8Targets THEN "article_8"
        ELSE "article_6"

classify_loan_sfdr_article(loan_id) ==
    LET loan == loans[QueryLoan(loan_id)[1]]
        meaningful_targets ==
            Count(KpisOf(loan_id),
                  LAMBDA k : k.target_value # Null /\ k.baseline_value # Null)
    IN  IF ~loan.sustainability_linked THEN "article_6"
        ELSE IF KpisOf(loan_id) = <<>> THEN "article_6"
        ELSE IF meaningful_targets >= Article9Targets THEN "article_9"
        ELSE IF meaningful_targets >= Article8Targets THEN "article_8"
        ELSE "article_6"

PaiIds == 1..14

\* lines 86-108: the loop body, one KPI applied to pai_data
pai_step(pai_data, kpi) ==
    LET reported == [value |-> kpi.current_value, data_quality |-> "reported"]
        p1 == IF NameHas(kpi, {"carbon", "emission", "ghg"})
              THEN [pai_data EXCEPT ![1] = reported] ELSE pai_data
        p5 == IF /\ NameHas(kpi, {"energy"}) /\ NameHas(kpi, {"renewable"})
                 /\ Truthy(kpi.current_value)
              THEN [p1 EXCEPT ![5] = [value |-> Some(100 - Val(kpi.current_value)),
                                      data_quality |-> "calculated"]]
              ELSE p1
        p8 == IF NameHas(kpi, {"water"}) THEN [p5 EXCEPT ![8] = reported] ELSE p5
        p9 == IF NameHas(kpi, {"waste"}) THEN [p8 EXCEPT ![9] = reported] ELSE p8
    IN  IF NameHas(kpi, {"gender", "diversity"}) THEN [p9 EXCEPT ![13] = reported] ELSE p9

calculate_pai_indicators(loan_id) ==
    LET ks == KpisOf(loan_id)
        RECURSIVE Fold(_)
        Fold(n) ==
            IF n = 0 THEN [i \in PaiIds |-> [value |-> Null, data_quality |-> "estimated"]]
            ELSE pai_step(Fold(n - 1), ks[n])
    IN  Fold(Len(ks))

\* kpi.current_value >= kpi.target_value * 0.8
MeetsTarget(kpi) == 10 * Val(kpi.current_value) >= 8 * Val(kpi.target_value)

Qualifying(kpi) == Truthy(kpi.target_value) /\ Truthy(kpi.current_value)

\* in percent
calculate_sustainable_investment_percentage(loan_id) ==
    LET ks == KpisOf(loan_id)
        total_kpis == Count(ks, Qualifying)
        dnsh_compliant == Count(ks, LAMBDA k : Qualifying(k) /\ MeetsTarget(k))
    IN  IF QueryLoan(loan_id) = <<>> THEN 0
        ELSE IF ~loans[QueryLoan(loan_id)[1]].sustainability_linked THEN 0
        ELSE IF ks = <<>> \/ total_kpis = 0 THEN 0
        ELSE IF dnsh_compliant * 100 >= 90 * total_kpis THEN 100
        ELSE IF dnsh_compliant * 100 >= 75 * total_kpis THEN 75
        ELSE IF dnsh_compliant * 100 >= 50 * total_kpis THEN 50
        ELSE 0

IsClimate(kpi) == NameHas(kpi, {"carbon", "emission"})

\* the filter of line 178
HasPositiveTarget(kpi) == Truthy(kpi.target_value) /\ Val(kpi.target_value) > 0

\* line 176 divides kpi.current_value, None included, by the target
TaxonomyRaises(loan_id) ==
    \E i \in 1..Len(KpisOf(loan_id)) :
        LET kpi == KpisOf(loan_id)[i]
        IN  IsClimate(kpi) /\ HasPositiveTarget(kpi) /\ kpi.current_value = Null

climate_kpis(loan_id) == SelectSeq(KpisOf(loan_id), IsClimate)

performance(kpi) == <<Val(kpi.current_value) * 100, Val(kpi.target_value)>>

\* lines 175-179: the sum over the KPIs with a positive target, divided by the
\* number of all climate KPIs
avg_performance(loan_id) ==
    RMean(MapSelect(climate_kpis(loan_id), HasPositiveTarget, performance)
          \o [i \in 1..Count(climate_kpis(loan_id), LAMBDA k : ~HasPositiveTarget(k)) |-> <<0, 1>>])

environmental_objectives ==
    { "climate_change_mitigation", "climate_change_adaptation", "sustainable_use_water",
      "circular_economy", "pollution_prevention", "biodiversity_ecosystems" }

Unaligned ==
    [ aligned |-> FALSE, substantial_contribution |-> FALSE, dnsh_compliance |-> FALSE,
      minimum_safeguards |-> FALSE, alignment_percentage |-> <<0, 1>> ]

assess_eu_taxonomy_alignment(loan_id) ==
    LET alignment == [o \in environmental_objectives |-> Unaligned]
        avg == avg_performance(loan_id)
    IN  IF climate_kpis(loan_id) # <<>>
        THEN [alignment EXCEPT !["climate_change_mitigation"] =
                 [ aligned |-> RLe(<<75, 1>>, avg),
                   substantial_contribution |-> RLe(<<75, 1>>, avg),
                   dnsh_compliance |-> TRUE,
                   minimum_safeguards |-> TRUE,
                   alignment_percentage |-> RMin(avg, <<100, 1>>) ]]
        ELSE alignment

\* kpi.current_value > kpi.target_value * 1.2, behind the guard of lines 210, 218
Exceeds(kpi) ==
    /\ Truthy(kpi.current_value) /\ Truthy(kpi.target_value)
    /\ 10 * Val(kpi.current_value) > 12 * Val(kpi.target_value)

assess_dnsh_compliance(loan_id) ==
    LET ks == KpisOf(loan_id)
        Name(k) == k.kpi_name
        pollution == MapSelect(ks, LAMBDA k : NameHas(k, {"pollution", "contamination"})
                                              /\ Exceeds(k), Name)
        water == MapSelect(ks, LAMBDA k : NameHas(k, {"water", "waste water"})
                                          /\ Exceeds(k), Name)
        Area(issues) == [compliant |-> issues = <<>>, issues |-> issues]
    IN  [ overall_compliant |-> pollution = <<>> /\ water = <<>>,
          environmental_harm |->
              [ climate_mitigation |-> Area(<<>>), climate_adaptation |-> Area(<<>>),
                water_marine |-> Area(water), circular_economy |-> Area(<<>>),
                pollution |-> Area(pollution), biodiversity |-> Area(<<>>) ] ]

assess_social_safeguards(loan_id) ==
    LET Name(k) == k.kpi_name
        Safeguard(evidence) == [compliant |-> TRUE, evidence |-> evidence]
    IN  [ oecd_guidelines |-> Safeguard(<<>>),
          un_guiding_principles |-> Safeguard(<<>>),
          ilo_conventions |->
              Safeguard(MapSelect(KpisOf(loan_id),
                                  LAMBDA k : k.kpi_category # NoneStr
                                             /\ Lower(k.kpi_category) = "social",
                                  Name)),
          international_bill_rights |-> Safeguard(<<>>) ]

\* _generate_disclosure_statement: the statement's template and what fills it
generate_disclosure_statement(classification, sustainable_pct, dnsh_compliant) ==
    IF classification = "article_9"
    THEN <<"sustainable investment as its objective", sustainable_pct,
           IF dnsh_compliant THEN "complies" ELSE "does not fully comply">>
    ELSE IF classification = "article_8"
    THEN <<"promotes environmental and social characteristics", sustainable_pct>>
    ELSE <<"does not promote environmental or social characteristics">>

\* lines 291-303
SFDRReportRow(loan_id, period, t) ==
    [ loan_id |-> loan_id,
      report_period |-> period,
      sfdr_classification |-> classify_loan_sfdr_article(loan_id),
      principal_adverse_impacts |-> calculate_pai_indicators(loan_id),
      sustainable_investment_percentage |->
          calculate_sustainable_investment_percentage(loan_id),
      taxonomy_alignment |-> assess_eu_taxonomy_alignment(loan_id),
      do_no_significant_harm_assessment |-> assess_dnsh_compliance(loan_id),
      social_safeguards |-> assess_social_safeguards(loan_id),
      generated_date |-> t,
      status |-> "completed",
      disclosure_statement |->
          generate_disclosure_statement(
              classify_loan_sfdr_article(loan_id),
              calculate_sustainable_investment_percentage(loan_id),
              assess_dnsh_compliance(loan_id).overall_compliant) ]

Periods == {"2024-Q4"}

GenerateSfdrReport(loan_id, period) ==
    LET found == QueryLoan(loan_id)
        args == [loan_id |-> loan_id, period |-> period]
    IN  IF found = <<>>
        THEN /\ last' = Call("generate_sfdr_report", args, "not_found", <<>>)
             /\ UNCHANGED <<db, now, unchanged_since, sessions, esg_measurements>>
        ELSE IF TaxonomyRaises(loan_id)
        THEN /\ last' = Call("generate_sfdr_report", args, "TypeError", <<>>)
             /\ UNCHANGED <<db, now, unchanged_since, sessions, esg_measurements>>
        ELSE \E row \in {SFDRReportRow(loan_id, period, now)} :
                 /\ LedgerRows < MaxRows
                 /\ sfdr_reports' = Append(sfdr_reports, row)
                 /\ last' = Call("generate_sfdr_report", args, "ok",
                                 [ report_id |-> Len(sfdr_reports) + 1,
                                   loan_id |-> loan_id,
                                   period |-> period,
                                   sfdr_classification |-> row.sfdr_classification,
                                   sustainable_investment_percentage |->
                                       row.sustainable_investment_percentage,
                                   taxonomy_aligned |->
                                       \E o \in environmental_objectives :
                                           row.taxonomy_alignment[o].aligned,
                                   dnsh_compliant |->
                                       row.do_no_significant_harm_assessment.overall_compliant ])
                 /\ UNCHANGED <<loans, kpis, covenants, verifications, pricing_history,
                                risk_assessments, now, unchanged_since, sessions, esg_measurements>>

----------------------------------------------------------------------------
(* The CRUD layer: loans and KPIs, and the clock *)

\* the id the table gives a new row: one more than the largest id in use
NextId(ids) == IF ids = {} THEN 1 ELSE MaxOf(ids) + 1

\* LoanService.create_loan: the row is the request's fields, the id the next
\* one; the request names a borrower that exists or one that does not
CreateLoan(loan_data, borrower_exists) ==
    IF ~borrower_exists
    THEN /\ last' = Call("create_loan", loan_data, "borrower_not_found", <<>>)
         /\ UNCHANGED <<db, now, unchanged_since, sessions, esg_measurements>>
    ELSE LET id == NextId(DOMAIN loans)
         IN  /\ id <= MaxLoans
             /\ loans' = [i \in DOMAIN loans \cup {id} |->
                             IF i = id THEN loan_data ELSE loans[i]]
             /\ last' = Call("create_loan", loan_data, "ok", id)
             /\ UNCHANGED <<kpis, covenants, verifications, pricing_history,
                            risk_assessments, sfdr_reports, now, unchanged_since, sessions, esg_measurements>>

\* for field, value in loan_data.model_dump(exclude_unset=True).items():
\*     setattr(loan, field, value)
SetAttrs(loan, loan_data) ==
    [f \in DOMAIN loan |-> IF f \in DOMAIN loan_data THEN loan_data[f] ELSE loan[f]]

\* LoanService.update_loan, the request leaving borrower_id unset
UpdateLoan(loan_id, loan_data) ==
    LET found == QueryLoan(loan_id)
        args == [loan_id |-> loan_id, loan_data |-> loan_data]
    IN  IF found = <<>>
        THEN /\ last' = Call("update_loan", args, "not_found", <<>>)
             /\ UNCHANGED <<db, now, unchanged_since, sessions, esg_measurements>>
        ELSE /\ loans' = [loans EXCEPT ![found[1]] = SetAttrs(loans[found[1]], loan_data)]
             /\ unchanged_since' = unchanged_since \ {loan_id}
             /\ last' = Call("update_loan", args, "ok", <<>>)
             /\ UNCHANGED <<kpis, covenants, verifications, pricing_history,
                            risk_assessments, sfdr_reports, now, sessions, esg_measurements>>

\* POST /esg-kpis/
CreateEsgKpi(kpi) ==
    IF QueryLoan(kpi.loan_id) = <<>>
    THEN /\ last' = Call("create_esg_kpi", kpi, "not_found", <<>>)
         /\ UNCHANGED <<db, now, unchanged_since, sessions, esg_measurements>>
    ELSE /\ Len(kpis) < MaxKpis
         /\ kpis' = Append(kpis, kpi)
         /\ unchanged_since' = unchanged_since \ {kpi.loan_id}
         /\ last' = Call("create_esg_kpi", kpi, "ok", Len(kpis) + 1)
         /\ UNCHANGED <<loans, covenants, verifications, pricing_history,
                        risk_assessments, sfdr_reports, now, sessions, esg_measurements>>

\* the clock advances by a day
Tick ==
    /\ now < MaxNow
    /\ now' = now + 1
    /\ last' = NoCall
    /\ UNCHANGED <<db, unchanged_since, sessions, esg_measurements>>

----------------------------------------------------------------------------
(* The system: the CRUD layer and the three engines over one database *)

\* the ids requests name: those a loan can have, and one no loan has
CallIds == 1..(MaxLoans + 1)

LoanRequests == {NewLoan(1000, Some(400), Some(200), "active", TRUE, Null)}

LoanUpdates == {[base_margin |-> Some(0)]}

\* the loans KPI requests name: the first, and one that is missing
OwnerIds == {1, MaxLoans + 1}

KpiRequests ==
    [ loan_id : OwnerIds,
      kpi_name : {"Carbon Emissions"},
      kpi_category : {"environmental"},
      target_value : {Some(2)},
      current_value : {Some(2)},
      baseline_value : {Some(1)} ]

Init ==
    /\ EmptyDb
    /\ last = NoCall

Next ==
    \/ \E loan_data \in LoanRequests, borrower_exists \in BOOLEAN :
         CreateLoan(loan_data, borrower_exists)
    \/ \E loan_id \in CallIds, loan_data \in LoanUpdates : UpdateLoan(loan_id, loan_data)
    \/ \E kpi \in KpiRequests : CreateEsgKpi(kpi)
    \/ \E loan_id \in CallIds : UpdateLoanPricing(loan_id, ApiCaller)
    \/ \E loan_id \in CallIds : CreateRiskAssessment(loan_id)
    \/ \E loan_id \in CallIds, period \in Periods : GenerateSfdrReport(loan_id, period)

Spec == Init /\ [][Next]_vars

----------------------------------------------------------------------------
(* The ESG score of a loan over every KPI table *)

CalculateEsgPerformanceScore ==
    /\ Pending("calculate_esg_performance_score")
    /\ last' = Call(last.op, last.args, "ok",
                    [ score |-> calculate_esg_performance_score(last.args.loan_id),
                      category_scores |-> category_scores(last.args.loan_id) ])
    /\ UNCHANGED <<db, now, unchanged_since, sessions, esg_measurements>>

InitEsg ==
    /\ loans = (1 :> NewLoan(1000, Some(400), Some(200), "active", TRUE, Null))
    /\ kpis \in Tables(KpiRows({"Energy intensity"}), MaxKpis) \cup OnePerCategory
    /\ covenants = <<>>
    /\ verifications = <<>>
    /\ pricing_history = <<>>
    /\ risk_assessments = <<>>
    /\ sfdr_reports = <<>>
    /\ now = 0
    /\ unchanged_since = {}
    /\ sessions = NoSessions
    /\ esg_measurements = <<>>
    /\ last = Call("calculate_esg_performance_score", [loan_id |-> 1], "pending", <<>>)

NextEsg == CalculateEsgPerformanceScore

SpecEsg == InitEsg /\ [][NextEsg]_vars

NextTier == DeterminePricingTier \/ CalculateMarginAdjustment

SpecTier == InitTier /\ [][NextTier]_vars

----------------------------------------------------------------------------
(* update_loan_pricing over every stored rate and margin *)

\* interest_rate is stored within [0, 100], base_margin within [-10, 50], or NULL
StoredRates == {Null, Some(0), Some(400)}
StoredMargins == {Null, Some(-100), Some(0), Some(200)}

PricedKpiRows ==
    [ loan_id : {1},
      kpi_name : {"Energy intensity"},
      kpi_category : {"environmental", "social"},
      target_value : {Some(MaxVal)},
      current_value : {Null} \cup {Some(v) : v \in 1..MaxVal},
      baseline_value : {Some(1)} ]

InitPricing ==
    /\ \E interest_rate \in StoredRates, base \in StoredMargins :
         loans = (1 :> NewLoan(1000, interest_rate, base, "active", TRUE, Null))
    /\ kpis \in Tables(PricedKpiRows, MaxKpis)
    /\ covenants = <<>>
    /\ verifications = <<>>
    /\ pricing_history = <<>>
    /\ risk_assessments = <<>>
    /\ sfdr_reports = <<>>
    /\ now = 0
    /\ unchanged_since = {}
    /\ sessions = NoSessions
    /\ esg_measurements = <<>>
    /\ last = NoCall

NextPricing ==
    \E loan_id \in CallIds, caller \in PricingCallers : UpdateLoanPricing(loan_id, caller)

SpecPricing == InitPricing /\ [][NextPricing]_vars

----------------------------------------------------------------------------
(* The three engines over sparse KPI and covenant data *)

MaxSparse == 1

\* a value that is missing, zero, or present
SparseVals == {Null, Some(0), Some(MaxVal)}

SparseKpiRows ==
    [ loan_id : {1},
      kpi_name : {"Carbon Emissions", "Energy intensity"},
      kpi_category : {"environmental"},
      target_value : SparseVals,
      current_value : SparseVals,
      baseline_value : {Null, Some(1)} ]

SparseCovenantRows ==
    [ loan_id : {1},
      covenant_type : {"minimum_ebitda", "maximum_leverage"},
      threshold : SparseVals,
      current_value : SparseVals,
      status : {"compliant"} ]

InitEngines ==
    /\ loans = (1 :> NewLoan(1000, Some(400), Some(200), "active", TRUE, Null))
    /\ kpis \in Tables(SparseKpiRows, MaxSparse)
    /\ covenants \in Tables(SparseCovenantRows, MaxSparse)
    /\ verifications = <<>>
    /\ pricing_history = <<>>
    /\ risk_assessments = <<>>
    /\ sfdr_reports = <<>>
    /\ now = 0
    /\ unchanged_since = {}
    /\ sessions = NoSessions
    /\ esg_measurements = <<>>
    /\ last = NoCall

NextEngines ==
    \/ \E loan_id \in CallIds : UpdateLoanPricing(loan_id, EngineCaller)
    \/ \E loan_id \in CallIds : CreateRiskAssessment(loan_id)
    \/ \E loan_id \in CallIds, period \in Periods : GenerateSfdrReport(loan_id, period)

SpecEngines == InitEngines /\ [][NextEngines]_vars

----------------------------------------------------------------------------
(* create_risk_assessment over covenants, KPIs, verifications and maturities *)

RiskCovenantRows ==
    [ loan_id : {1},
      covenant_type : {"minimum_ebitda", "maximum_leverage"},
      threshold : {Some(2)},
      current_value : {Null} \cup {Some(v) : v \in 1..MaxVal},
      status : {"compliant"} ]

RiskKpiRows ==
    [ loan_id : {1},
      kpi_name : {"Energy intensity"},
      kpi_category : {"environmental"},
      target_value : {Some(MaxVal)},
      current_value : {Null} \cup {Some(v) : v \in 1..MaxVal},
      baseline_value : {Some(1)} ]

VerificationRows ==
    [ loan_id : {1}, verification_date : {0}, status : {"failed", "compliant"} ]

\* maturities: none, one that comes within MaturityNear days as the clock
\* advances, and a distant one
Maturities == {Null, Some(MaturityNear), Some(2 * MaturitySoon)}

InitRisk ==
    /\ \E status \in {"active", "defaulted"}, maturity_date \in Maturities :
         loans = (1 :> NewLoan(1000, Some(400), Some(200), status, TRUE, maturity_date))
    /\ kpis \in Tables(RiskKpiRows, 1)
    /\ covenants \in Tables(RiskCovenantRows, 1)
    /\ verifications \in Tables(VerificationRows, MaxRows - 1)
    /\ pricing_history = <<>>
    /\ risk_assessments = <<>>
    /\ sfdr_reports = <<>>
    /\ now = 0
    /\ unchanged_since = {}
    /\ sessions = NoSessions
    /\ esg_measurements = <<>>
    /\ last = NoCall

NextRisk ==
    \/ \E loan_id \in CallIds : CreateRiskAssessment(loan_id)
    \/ Tick

SpecRisk == InitRisk /\ [][NextRisk]_vars

----------------------------------------------------------------------------
(* C1: for every score s in [0,100] determine_pricing_tier(s) is the first  *)
(* tier met scanning excellent>=90, good>=75, fair>=60, poor>=40,           *)
(* critical>=0, and calculate_margin_adjustment(s) is that tier's           *)
(* adjustment -0.50, -0.25, 0.00, +0.25, +0.50.                             *)

C1_Tier(s) ==
    IF s >= 9000 THEN "excellent"
    ELSE IF s >= 7500 THEN "good"
    ELSE IF s >= 6000 THEN "fair"
    ELSE IF s >= 4000 THEN "poor"
    ELSE "critical"

C1_Adjustment(t) ==
    CASE t = "excellent" -> -50
      [] t = "good" -> -25
      [] t = "fair" -> 0
      [] t = "poor" -> 25
      [] t = "critical" -> 50

C1_TierTable ==
    /\ last.op = "determine_pricing_tier" /\ last.outcome = "ok"
         => last.result = C1_Tier(last.args.esg_score)
    /\ last.op = "calculate_margin_adjustment" /\ last.outcome = "ok"
         => last.result = C1_Adjustment(C1_Tier(last.args.esg_score))

C1_Witness ==
    /\ last.op = "calculate_margin_adjustment" /\ last.outcome = "ok"
    /\ last.args.esg_score = 7499
    /\ last.result = 0

----------------------------------------------------------------------------
(* C2 (as amended): calculate_esg_performance_score returns                 *)
(* sum(w_c * mean_c) / sum(w_c) over exactly the categories among            *)
(* environmental 0.40, social 0.30, governance 0.30 that have a contributing *)
(* KPI, ROUNDED TO TWO DECIMALS, and 50.0 when no KPI contributes; a KPI set *)
(* whose contributing KPIs are all governance scores the governance average  *)
(* rounded to two decimals.                                                  *)

C2_Answered == last.op = "calculate_esg_performance_score" /\ last.outcome = "ok"

C2_Present(k) ==
    /\ k.target_value \notin {Null, Some(0)}
    /\ k.current_value \notin {Null, Some(0)}
    /\ k.baseline_value \notin {Null, Some(0)}
    /\ k.target_value # k.baseline_value

C2_CategoryOf(k) ==
    CASE k.kpi_category \in {"environmental", NoneStr} -> "environmental"
      [] k.kpi_category = "social" -> "social"
      [] k.kpi_category = "Governance" -> "governance"

\* the indices of the KPIs that contribute to category c
C2_Contributing(c) ==
    {i \in 1..Len(kpis) : kpis[i].loan_id = last.args.loan_id
                          /\ C2_Present(kpis[i]) /\ C2_CategoryOf(kpis[i]) = c}

C2_Ach(k) ==
    LET tp == Abs(k.target_value[1] - k.baseline_value[1])
        cp == Abs(k.current_value[1] - k.baseline_value[1])
    IN  IF cp >= tp THEN <<100, 1>> ELSE <<100 * cp, tp>>

RECURSIVE C2_SumOver(_)
C2_SumOver(S) ==
    IF S = {} THEN <<0, 1>>
    ELSE LET i == CHOOSE j \in S : TRUE
             a == C2_Ach(kpis[i])
             r == C2_SumOver(S \ {i})
         IN  <<a[1] * r[2] + r[1] * a[2], a[2] * r[2]>>

\* w_c * mean_c, w_c in hundredths
C2_Term(c, w) ==
    LET S == C2_Contributing(c)
        t == C2_SumOver(S)
    IN  IF S = {} THEN <<0, 1>> ELSE <<w * t[1], t[2] * Cardinality(S)>>

C2_UsedWeight ==
    (IF C2_Contributing("environmental") # {} THEN 40 ELSE 0)
    + (IF C2_Contributing("social") # {} THEN 30 ELSE 0)
    + (IF C2_Contributing("governance") # {} THEN 30 ELSE 0)

\* the exact weighted average, a rational, when some category is used
C2_Exact ==
    LET e == C2_Term("environmental", 40)
        so == C2_Term("social", 30)
        g == C2_Term("governance", 30)
        n == e[1] * so[2] * g[2] + so[1] * e[2] * g[2] + g[1] * e[2] * so[2]
    IN  <<n, e[2] * so[2] * g[2] * C2_UsedWeight>>

\* score (in hundredths) is x rounded to two decimals
C2_IsRounded(score, x) == 2 * Abs(score * x[2] - Scale * x[1]) <= x[2]

C2_RoundedWeightedAverage ==
    C2_Answered =>
        IF C2_UsedWeight = 0 THEN last.result.score = 5000
        ELSE C2_IsRounded(last.result.score, C2_Exact)

\* two categories, renormalised by 0.70: (0.4 * 100 + 0.3 * 0) / 0.7 = 57.142857...
C2_Witness ==
    /\ C2_Answered
    /\ C2_UsedWeight = 70
    /\ last.result.score = 5714

\* the claim as stated: the exact weighted average, unrounded
C2_ExactWeightedAverage ==
    C2_Answered =>
        IF C2_UsedWeight = 0 THEN last.result.score = 5000
        ELSE last.result.score * C2_Exact[2] = Scale * C2_Exact[1]

----------------------------------------------------------------------------
(* C3: every achievement the ESG scorer computes lies in [0,100], an         *)
(* overshoot is clamped to exactly 100 and no regression goes below 0, and   *)
(* a KPI whose target equals its baseline contributes no achievement.        *)

C3_Achievements ==
    {<<c, i>> \in ScoredCategories \X (1..MaxKpis + 1) :
        i <= Len(last.result.category_scores[c])}

C3_Count ==
    Len(last.result.category_scores["environmental"])
    + Len(last.result.category_scores["social"])
    + Len(last.result.category_scores["governance"])

C3_Overshoots(k) ==
    /\ k.target_value # Null /\ k.current_value # Null /\ k.baseline_value # Null
    /\ 0 \notin {k.target_value[1], k.current_value[1], k.baseline_value[1]}
    /\ k.target_value # k.baseline_value
    /\ Abs(k.current_value[1] - k.baseline_value[1])
         > Abs(k.target_value[1] - k.baseline_value[1])

C3_AchievementBounded ==
    C2_Answered =>
        /\ \A p \in C3_Achievements :
              LET a == last.result.category_scores[p[1]][p[2]]
              IN  a[2] > 0 /\ 0 <= a[1] /\ a[1] <= 100 * a[2]
        /\ C3_Count <= Cardinality({i \in 1..Len(kpis) :
                                      kpis[i].target_value # kpis[i].baseline_value})
        /\ \A i \in 1..Len(kpis) :
              C3_Overshoots(kpis[i]) =>
                 \E j \in 1..Len(last.result.category_scores[C2_CategoryOf(kpis[i])]) :
                    LET a == last.result.category_scores[C2_CategoryOf(kpis[i])][j]
                    IN  a[1] = 100 * a[2]

\* one KPI overshoots its target, the other has target = baseline
C3_Witness ==
    /\ C2_Answered
    /\ Len(kpis) = 2
    /\ C3_Overshoots(kpis[1])
    /\ kpis[2].target_value = kpis[2].baseline_value /\ kpis[2].target_value = Some(2)
    /\ kpis[2].current_value = Some(1)
    /\ C3_Count = 1

----------------------------------------------------------------------------
(* C4: for every existing loan update_loan_pricing computes, returns and     *)
(* persists new_margin = base_margin + adjustment and new_total_rate =       *)
(* base_interest_rate + new_margin, base_margin and base_interest_rate being *)
(* the values stored on the loan, for every stored numeric value, and        *)
(* adjustment the adjustment of the tier selected for the loan's ESG score.  *)

C4_Priced == last.op = "update_loan_pricing" /\ last.outcome = "ok"

C4_Loan == loans[last.args.loan_id]

C4_Adjustment ==
    LET score == calculate_esg_performance_score(last.args.loan_id)
    IN  CASE score >= 9000 -> -50
          [] score >= 7500 /\ score < 9000 -> -25
          [] score >= 6000 /\ score < 7500 -> 0
          [] score >= 4000 /\ score < 6000 -> 25
          [] score < 4000 -> 50

C4_StoredMarginAndRate ==
    (C4_Priced /\ C4_Loan.base_margin # Null /\ C4_Loan.interest_rate # Null) =>
        LET new_margin == C4_Loan.base_margin[1] + C4_Adjustment
            new_total_rate == C4_Loan.interest_rate[1] + new_margin
            row == pricing_history[Len(pricing_history)]
        IN  /\ last.result.new_margin = new_margin
            /\ last.result.new_total_rate = new_total_rate
            /\ C4_Loan.current_margin = <<new_margin>>
            /\ row.margin = new_margin
            /\ row.total_rate = new_total_rate

----------------------------------------------------------------------------
(* C5: every successful call of update_loan_pricing, create_risk_assessment  *)
(* or generate_sfdr_report appends exactly one row to its own ledger, for    *)
(* the given loan, and appends no row to the other two ledgers or for any    *)
(* other loan.                                                               *)

C5_Engines == {"update_loan_pricing", "create_risk_assessment", "generate_sfdr_report"}

\* ledger2 is ledger and one more row, of the loan
C5_OneMore(ledger, ledger2, loan_id) ==
    /\ Len(ledger2) = Len(ledger) + 1
    /\ \A i \in 1..Len(ledger) : ledger2[i] = ledger[i]
    /\ ledger2[Len(ledger2)].loan_id = loan_id

C5_Step ==
    (last'.op \in C5_Engines /\ last'.outcome = "ok") =>
        /\ last'.op = "update_loan_pricing" =>
              /\ C5_OneMore(pricing_history, pricing_history', last'.args.loan_id)
              /\ risk_assessments' = risk_assessments /\ sfdr_reports' = sfdr_reports
        /\ last'.op = "create_risk_assessment" =>
              /\ C5_OneMore(risk_assessments, risk_assessments', last'.args.loan_id)
              /\ pricing_history' = pricing_history /\ sfdr_reports' = sfdr_reports
        /\ last'.op = "generate_sfdr_report" =>
              /\ C5_OneMore(sfdr_reports, sfdr_reports', last'.args.loan_id)
              /\ pricing_history' = pricing_history /\ risk_assessments' = risk_assessments

C5_OneRowInOwnLedger == [][C5_Step]_vars

\* each engine has written for the second loan while the first has none
C5_Witness ==
    /\ last.op \in C5_Engines /\ last.outcome = "ok" /\ last.args.loan_id = 2
    /\ Len(pricing_history) = 1 /\ pricing_history[1].loan_id = 2
    /\ Len(risk_assessments) = 1 /\ risk_assessments[1].loan_id = 2
    /\ Len(sfdr_reports) = 1 /\ sfdr_reports[1].loan_id = 2

----------------------------------------------------------------------------
(* C6: after every successful update_loan_pricing call the loan's            *)
(* esg_performance_score, margin_adjustment and current_margin equal the     *)
(* esg_performance_score, adjustment_amount and margin of the PricingHistory *)
(* row the call appended, pricing_tier and last_pricing_update are set, and  *)
(* no other Loan column is changed.  (Calls are atomic here: none overlaps   *)
(* another.)                                                                 *)

C6_DerivedPricingColumns ==
    {"esg_performance_score", "pricing_tier", "current_margin", "margin_adjustment",
     "last_pricing_update"}

C6_Step ==
    (last'.op = "update_loan_pricing" /\ last'.outcome = "ok") =>
        LET id == last'.args.loan_id
            row == pricing_history'[Len(pricing_history')]
        IN  /\ loans'[id].esg_performance_score = <<row.esg_performance_score>>
            /\ loans'[id].margin_adjustment = <<row.adjustment_amount>>
            /\ loans'[id].current_margin = <<row.margin>>
            /\ loans'[id].pricing_tier # NoneStr
            /\ loans'[id].last_pricing_update # Null
            /\ \A column \in (DOMAIN loans[id]) \ C6_DerivedPricingColumns :
                  loans'[id][column] = loans[id][column]

----------------------------------------------------------------------------
(* C7: calling update_loan_pricing twice on the same loan with unchanged KPI *)
(* and loan data produces two PricingHistory rows with identical             *)
(* esg_performance_score, pricing_tier and margin; the adjustment is never   *)
(* compounded, only the ledger grows.  (PricingHistory has no pricing_tier   *)
(* column: the tier is the one the call returns and stores on the loan.)     *)

\* the latest row of the loan in the ledger
C7_Previous(loan_id) ==
    pricing_history[CHOOSE i \in 1..Len(pricing_history) :
                       /\ pricing_history[i].loan_id = loan_id
                       /\ \A j \in (i + 1)..Len(pricing_history) :
                             pricing_history[j].loan_id # loan_id]

C7_Step ==
    (/\ last'.op = "update_loan_pricing" /\ last'.outcome = "ok"
     /\ last'.args.loan_id \in unchanged_since) =>
        LET id == last'.args.loan_id
            row == pricing_history'[Len(pricing_history')]
        IN  /\ Len(pricing_history') = Len(pricing_history) + 1
            /\ row.esg_performance_score = C7_Previous(id).esg_performance_score
            /\ row.margin = C7_Previous(id).margin
            /\ row.adjustment_amount = C7_Previous(id).adjustment_amount
            /\ last'.result.pricing_tier = loans[id].pricing_tier
            /\ loans'[id].pricing_tier = loans[id].pricing_tier

----------------------------------------------------------------------------
(* C8: update_loan_pricing, create_risk_assessment and generate_sfdr_report  *)
(* each fail with a not-found error when no loan with the given id exists;   *)
(* the check comes first, and then no ledger row is appended and no Loan     *)
(* field is changed.                                                         *)

C8_Step ==
    (last'.op \in C5_Engines) =>
        /\ last'.args.loan_id \notin DOMAIN loans =>
              /\ last'.outcome = "not_found"
              /\ loans' = loans
              /\ pricing_history' = pricing_history
              /\ risk_assessments' = risk_assessments
              /\ sfdr_reports' = sfdr_reports
        /\ last'.outcome = "not_found" => last'.args.loan_id \notin DOMAIN loans

C8_NotFoundWritesNothing == [][C8_Step]_vars

\* a report asked for a loan that does not exist, beside loans that do
C8_Witness ==
    /\ last.op = "generate_sfdr_report" /\ last.outcome = "not_found"
    /\ last.args.loan_id \notin DOMAIN loans
    /\ DOMAIN loans = {1, 2}
    /\ Len(kpis) > 0
    /\ Len(sfdr_reports) = 1

----------------------------------------------------------------------------
(* C9: for every existing loan and every combination of missing and present  *)
(* baseline / current / target on its KPIs and current / threshold on its    *)
(* covenants, update_loan_pricing, create_risk_assessment and                *)
(* generate_sfdr_report complete without raising; with no KPIs, covenants    *)
(* or verifications the result is built from the neutral defaults (ESG score *)
(* 50.0, breach probability 0.0, trend "stable").                            *)

C9_NeverRaises ==
    (last.op \in C5_Engines /\ last.args.loan_id \in DOMAIN loans) =>
        /\ last.outcome = "ok"
        /\ (kpis = <<>> /\ last.op = "update_loan_pricing") =>
              last.result.esg_performance_score = 5000
        /\ (covenants = <<>> /\ last.op = "create_risk_assessment"
            /\ Len(risk_assessments) = 1) =>
              /\ last.result.covenant_breach_probability = 0
              /\ last.result.trend = "stable"

----------------------------------------------------------------------------
(* C10 (as amended): the overall risk score create_risk_assessment reports   *)
(* equals 0.4 x covenant_breach_probability + 0.3 x esg_risk_score + 0.3 x   *)
(* financial_risk_score of the sub-scores of the same result, ROUNDED TO TWO *)
(* DECIMALS; for an active loan with no covenants, KPIs, verifications or    *)
(* maturity date this gives covenant 0, ESG 50, financial 20, composite 21   *)
(* and category "low".                                                       *)

C10_Assessed == last.op = "create_risk_assessment" /\ last.outcome = "ok"

\* the weighted sum of the reported sub-scores, in thousandths of a point
C10_Weighted ==
    4 * last.result.covenant_breach_probability
    + 3 * last.result.esg_risk_score
    + 3 * last.result.financial_risk_score

C10_NoData ==
    /\ loans[last.args.loan_id].status = "active"
    /\ loans[last.args.loan_id].maturity_date = Null
    /\ covenants = <<>> /\ kpis = <<>> /\ verifications = <<>>

C10_Scenario ==
    C10_NoData =>
        /\ last.result.covenant_breach_probability = 0
        /\ last.result.esg_risk_score = 5000
        /\ last.result.financial_risk_score = 2000
        /\ last.result.overall_risk_score = 2100
        /\ last.result.risk_category = "low"

C10_RoundedComposite ==
    C10_Assessed =>
        /\ 2 * Abs(10 * last.result.overall_risk_score - C10_Weighted) <= 10
        /\ C10_Scenario

\* financial 13.33 (active, a passed verification, a distant maturity):
\* 0.4 x 0 + 0.3 x 50 + 0.3 x 13.33 = 18.999, reported as 19.0
C10_Witness ==
    /\ C10_Assessed
    /\ last.result.covenant_breach_probability = 0
    /\ last.result.esg_risk_score = 5000
    /\ last.result.financial_risk_score = 1333
    /\ last.result.overall_risk_score = 1900

\* the claim as stated: the weighted sum itself
C10_ExactComposite ==
    C10_Assessed =>
        /\ 10 * last.result.overall_risk_score = C10_Weighted
        /\ C10_Scenario

----------------------------------------------------------------------------
(* categorize_risk over every score *)

CategorizeRisk ==
    /\ Pending("categorize_risk")
    /\ last' = Call(last.op, last.args, "ok", categorize_risk(last.args.risk_score))
    /\ UNCHANGED <<db, now, unchanged_since, sessions, esg_measurements>>

InitCategory ==
    /\ EmptyDb
    /\ \E s \in Scores : last = Call("categorize_risk", [risk_score |-> s], "pending", <<>>)

NextCategory == CategorizeRisk

SpecCategory == InitCategory /\ [][NextCategory]_vars

----------------------------------------------------------------------------
(* C11: categorize_risk answers every score in [0,100]: "low" on [0,25),     *)
(* "moderate" on [25,50), "elevated" on [50,75) and "high" on [75,100], 100  *)
(* included; each of the boundaries 25, 50 and 75 belongs to the higher      *)
(* category.                                                                 *)

C11_Categorized == last.op = "categorize_risk" /\ last.outcome = "ok"

C11_Category(s) ==
    CASE 0 <= s /\ s < 2500 -> "low"
      [] 2500 <= s /\ s < 5000 -> "moderate"
      [] 5000 <= s /\ s < 7500 -> "elevated"
      [] 7500 <= s /\ s <= 10000 -> "high"

C11_CategoryBands ==
    (C11_Categorized /\ last.args.risk_score <= 10000) =>
        last.result = C11_Category(last.args.risk_score)

\* the score 100 falls outside every band of the table and is "high"
C11_Witness ==
    /\ C11_Categorized
    /\ last.args.risk_score = 10000
    /\ last.result = "high"

----------------------------------------------------------------------------
(* calculate_covenant_breach_probability over every covenant table *)

MaxCovenants == 2

\* covenants of the loan: of a minimum, a maximum and an unrecognised type,
\* threshold and current value missing or set, the threshold possibly 0.0
BreachCovenantRows ==
    [ loan_id : {1},
      covenant_type : {"minimum_ebitda", "maximum_leverage", "interest_cover"},
      threshold : {Null, Some(0), Some(100)},
      current_value : {Null, Some(95), Some(105)},
      status : {"compliant", "terminated"} ]

\* covenants of another loan
OtherLoanCovenantRows ==
    [ loan_id : {2},
      covenant_type : {"minimum_ebitda"},
      threshold : {Some(100)},
      current_value : {Some(95)},
      status : {"compliant"} ]

\* three covenants of the loan, one or more in each band of the distance
BandCovenantTables ==
    [ 1..3 -> [ loan_id : {1},
                covenant_type : {"minimum_ebitda"},
                threshold : {Some(100)},
                current_value : {Some(95), Some(105), Some(115), Some(125)},
                status : {"compliant"} ] ]

CalculateCovenantBreachProbability ==
    /\ Pending("calculate_covenant_breach_probability")
    /\ IF BreachProbabilityRaises(last.args.loan_id)
       THEN last' = Call(last.op, last.args, "ZeroDivisionError", <<>>)
       ELSE last' = Call(last.op, last.args, "ok",
                         calculate_covenant_breach_probability(last.args.loan_id))
    /\ UNCHANGED <<db, now, unchanged_since, sessions, esg_measurements>>

InitBreach ==
    /\ loans = (1 :> NewLoan(1000, Some(400), Some(200), "active", TRUE, Null))
    /\ kpis = <<>>
    /\ covenants \in Tables(BreachCovenantRows \cup OtherLoanCovenantRows, MaxCovenants)
                     \cup BandCovenantTables
    /\ verifications = <<>>
    /\ pricing_history = <<>>
    /\ risk_assessments = <<>>
    /\ sfdr_reports = <<>>
    /\ now = 0
    /\ unchanged_since = {}
    /\ sessions = NoSessions
    /\ esg_measurements = <<>>
    /\ last = Call("calculate_covenant_breach_probability", [loan_id |-> 1], "pending", <<>>)

NextBreach == CalculateCovenantBreachProbability

SpecBreach == InitBreach /\ [][NextBreach]_vars

----------------------------------------------------------------------------
(* C12: calculate_covenant_breach_probability returns 100 x the mean of the  *)
(* breach indicators of the loan's non-terminated covenants that have both   *)
(* current_value and threshold set, the indicator being 1.0 for a distance   *)
(* < 0, 0.8 for < 0.1, 0.5 for < 0.2 and 0.1 otherwise; it returns 0.0 when  *)
(* no covenant contributes, and 100 for a single minimum_ebitda covenant     *)
(* with threshold 100 and current value 95.                                  *)

C12_Answered ==
    last.op = "calculate_covenant_breach_probability" /\ last.outcome # "pending"

C12_Contributing ==
    {i \in 1..Len(covenants) :
        /\ covenants[i].loan_id = last.args.loan_id
        /\ covenants[i].status # "terminated"
        /\ covenants[i].current_value # Null
        /\ covenants[i].threshold # Null}

\* threshold x distance: current - threshold for a minimum or unrecognised
\* type, threshold - current for a maximum type
C12_Margin(c) ==
    IF c.covenant_type \in {"maximum_leverage", "maximum_debt"}
    THEN c.threshold[1] - c.current_value[1]
    ELSE c.current_value[1] - c.threshold[1]

\* the indicator in tenths, for a threshold >= 0
C12_Indicator(c) ==
    IF C12_Margin(c) < 0 THEN 10
    ELSE IF 10 * C12_Margin(c) < c.threshold[1] THEN 8
    ELSE IF 10 * C12_Margin(c) < 2 * c.threshold[1] THEN 5
    ELSE 1

RECURSIVE C12_Sum(_)
C12_Sum(S) ==
    IF S = {} THEN 0
    ELSE LET i == CHOOSE j \in S : TRUE
         IN  C12_Indicator(covenants[i]) + C12_Sum(S \ {i})

C12_MeanOfIndicators ==
    C12_Answered =>
        /\ last.outcome = "ok"
        /\ IF C12_Contributing = {} THEN last.result = 0
           ELSE last.result * Cardinality(C12_Contributing)
                  = 10 * Scale * C12_Sum(C12_Contributing)
        /\ (/\ Len(covenants) = 1 /\ C12_Contributing = {1}
            /\ covenants[1].covenant_type = "minimum_ebitda"
            /\ covenants[1].threshold = <<100>> /\ covenants[1].current_value = <<95>>)
              => last.result = 100 * Scale

----------------------------------------------------------------------------
(* create_risk_assessment beside repricing, over loans with few and many KPIs *)

MaxDataPoints == 10

AssessedKpiRow(loan_id) ==
    [ loan_id |-> loan_id,
      kpi_name |-> "Energy intensity",
      kpi_category |-> "environmental",
      target_value |-> Some(MaxVal),
      current_value |-> Some(2),
      baseline_value |-> Some(1) ]

\* n KPIs of the first loan, then none or one of the second
AssessedKpiTables ==
    {[i \in 1..(n + m) |-> IF i <= n THEN AssessedKpiRow(1) ELSE AssessedKpiRow(2)] :
        n \in 0..MaxDataPoints, m \in 0..1}

InitAssess ==
    /\ loans = (1 :> NewLoan(1000, Some(400), Some(200), "active", TRUE, Null))
               @@ (2 :> NewLoan(1000, Some(400), Some(200), "at_risk", TRUE, Null))
    /\ kpis \in AssessedKpiTables
    /\ covenants = <<>>
    /\ verifications = <<>>
    /\ pricing_history = <<>>
    /\ risk_assessments = <<>>
    /\ sfdr_reports = <<>>
    /\ now = 0
    /\ unchanged_since = {}
    /\ sessions = NoSessions
    /\ esg_measurements = <<>>
    /\ last = NoCall

NextAssess ==
    \/ \E loan_id \in CallIds : UpdateLoanPricing(loan_id, ApiCaller)
    \/ \E loan_id \in CallIds : CreateRiskAssessment(loan_id)
    \/ Tick

SpecAssess == InitAssess /\ [][NextAssess]_vars

----------------------------------------------------------------------------
(* C13: each successful create_risk_assessment sets the loan's risk_score    *)
(* and risk_category to those of the RiskAssessment row it appends, the      *)
(* category being categorize_risk of the score, stores confidence_level =    *)
(* min(50 + 5 x number of the loan's KPIs, 95) in that row, and changes no   *)
(* pricing field of the loan and no RiskAssessment row written before.       *)

C13_PricingFields ==
    {"interest_rate", "base_margin", "current_margin", "esg_performance_score",
     "pricing_tier", "margin_adjustment", "last_pricing_update"}

C13_KpiCount(loan_id) == Cardinality({i \in 1..Len(kpis) : kpis[i].loan_id = loan_id})

C13_Confidence(loan_id) ==
    IF 50 + 5 * C13_KpiCount(loan_id) <= 95 THEN 50 + 5 * C13_KpiCount(loan_id) ELSE 95

C13_Step ==
    (last'.op = "create_risk_assessment" /\ last'.outcome = "ok") =>
        LET id == last'.args.loan_id
            row == risk_assessments'[Len(risk_assessments')]
        IN  /\ Len(risk_assessments') = Len(risk_assessments) + 1
            /\ row.loan_id = id
            /\ loans'[id].risk_score = <<row.risk_score>>
            /\ loans'[id].risk_category = row.risk_category
            /\ row.risk_category = C11_Category(row.risk_score)
            /\ row.confidence_level = C13_Confidence(id)
            /\ \A f \in C13_PricingFields : loans'[id][f] = loans[id][f]
            /\ \A i \in 1..Len(risk_assessments) : risk_assessments'[i] = risk_assessments[i]

C13_AssessmentFrame == [][C13_Step]_vars

\* a second assessment of a priced loan that has ten KPIs: 50 + 5 x 10 is capped
C13_Witness ==
    /\ last.op = "create_risk_assessment" /\ last.outcome = "ok"
    /\ C13_KpiCount(last.args.loan_id) = 10
    /\ Len(risk_assessments) = 2
    /\ risk_assessments[2].confidence_level = 95
    /\ risk_assessments[1].loan_id = last.args.loan_id
    /\ loans[last.args.loan_id].pricing_tier # NoneStr
    /\ loans[last.args.loan_id].risk_score = <<risk_assessments[2].risk_score>>

----------------------------------------------------------------------------
(* classify_loan_sfdr_article over every KPI table *)

MaxTargets == 6

\* KPIs of the loan with target and baseline set, one of them missing, or both
\* set to 0.0, and a KPI of another loan
TargetKpiRows ==
    { [ loan_id |-> 1, kpi_name |-> "Energy intensity", kpi_category |-> "environmental",
        target_value |-> tb[1], current_value |-> Null, baseline_value |-> tb[2] ] :
        tb \in {<<Some(2), Some(1)>>, <<Some(2), Null>>, <<Null, Some(1)>>,
                <<Some(0), Some(0)>>} }
    \cup {AssessedKpiRow(2)}

ClassifyLoanSfdrArticle ==
    /\ Pending("classify_loan_sfdr_article")
    /\ IF QueryLoan(last.args.loan_id) = <<>>
       THEN last' = Call(last.op, last.args, "not_found", <<>>)
       ELSE last' = Call(last.op, last.args, "ok",
                         classify_loan_sfdr_article(last.args.loan_id))
    /\ UNCHANGED <<db, now, unchanged_since, sessions, esg_measurements>>

InitClassify ==
    /\ \E sustainability_linked \in BOOLEAN :
         loans = (1 :> NewLoan(1000, Some(400), Some(200), "active",
                               sustainability_linked, Null))
                 @@ (2 :> NewLoan(1000, Some(400), Some(200), "active", TRUE, Null))
    /\ kpis \in Tables(TargetKpiRows, MaxTargets)
    /\ covenants = <<>>
    /\ verifications = <<>>
    /\ pricing_history = <<>>
    /\ risk_assessments = <<>>
    /\ sfdr_reports = <<>>
    /\ now = 0
    /\ unchanged_since = {}
    /\ sessions = NoSessions
    /\ esg_measurements = <<>>
    /\ last = Call("classify_loan_sfdr_article", [loan_id |-> 1], "pending", <<>>)

NextClassify == ClassifyLoanSfdrArticle

SpecClassify == InitClassify /\ [][NextClassify]_vars

----------------------------------------------------------------------------
(* C14: classify_loan_sfdr_article returns "article_6" for every loan that   *)
(* is not sustainability-linked, whatever its KPIs; for a sustainability-    *)
(* linked loan with n KPIs that have both target and baseline set it returns *)
(* "article_9" if n >= 5, "article_8" if 2 <= n < 5 and "article_6" if n < 2. *)

C14_Classified == last.op = "classify_loan_sfdr_article" /\ last.outcome = "ok"

\* n: the loan's KPIs with both target and baseline set
C14_Targets ==
    Cardinality({i \in 1..Len(kpis) :
                    /\ kpis[i].loan_id = last.args.loan_id
                    /\ kpis[i].target_value # Null
                    /\ kpis[i].baseline_value # Null})

C14_ArticleByTargets ==
    C14_Classified =>
        IF ~loans[last.args.loan_id].sustainability_linked THEN last.result = "article_6"
        ELSE /\ C14_Targets >= 5 => last.result = "article_9"
             /\ (2 <= C14_Targets /\ C14_Targets < 5) => last.result = "article_8"
             /\ C14_Targets < 2 => last.result = "article_6"

\* five targets, one of them set to 0.0, beside a KPI that has no baseline
C14_Witness ==
    /\ C14_Classified
    /\ loans[last.args.loan_id].sustainability_linked
    /\ Len(kpis) = 6
    /\ C14_Targets = 5
    /\ \E i \in 1..Len(kpis) : kpis[i].target_value = <<0>>
    /\ last.result = "article_9"

----------------------------------------------------------------------------
(* update_loan_pricing, step by step: two requests at the same time *)

\* lines 87-126 in the request's session: the loan row and the KPIs are read,
\* the pricing is computed and assigned to the session's copy of the row, and
\* the PricingHistory row is built.  Nothing is written before the commit.
\* seen is the length of the ledger the request could see when it read.
ReadSession(loan_id, caller) ==
    [ state |-> "read",
      loan_id |-> loan_id,
      user_id |-> caller.user_id,
      reason |-> caller.reason,
      loaded |-> loans[loan_id],
      kpis |-> KpisOf(loan_id),
      p |-> Pricing(loan_id, loans[loan_id]),
      t |-> now,
      seen |-> Len(pricing_history) ]

InFlight == {w \in Workers : sessions[w].state = "read"}

BeginPricing(w, loan_id, caller) ==
    LET found == QueryLoan(loan_id)
        args == [loan_id |-> loan_id, user_id |-> caller.user_id, reason |-> caller.reason]
    IN  /\ sessions[w].state # "read"
        /\ IF found = <<>>
           THEN /\ last' = Call("update_loan_pricing", args, "not_found", <<>>)
                /\ UNCHANGED <<db, now, unchanged_since, sessions, esg_measurements>>
           ELSE /\ LedgerRows + Cardinality(InFlight) < MaxRows
                /\ sessions' = [sessions EXCEPT ![w] = ReadSession(found[1], caller)]
                /\ last' = Call("update_loan_pricing", args, "read", w)
                /\ UNCHANGED <<db, now, unchanged_since, esg_measurements>>

\* the UPDATE the commit flushes: the columns whose assigned value differs from
\* the value the session loaded; every other column keeps what the table holds.
\* last_pricing_update is datetime.now() to the microsecond, later than any
\* timestamp the session could load, and so is always written.
FlushUpdate(stored, s) ==
    LET assigned == PricedLoan(s.loaded, s.p, s.t)
    IN  [f \in DOMAIN stored |->
            IF f = "last_pricing_update" \/ assigned[f] # s.loaded[f]
            THEN assigned[f] ELSE stored[f]]

FlushInsert_at_seen(ledger, s) ==
    [i \in 1..(s.seen + 1) |->
        IF i <= s.seen THEN ledger[i]
        ELSE PricingHistoryRow(s.loan_id, s.p, s.t, s.user_id, s.reason)]

\* the INSERT the commit flushes: the row gets the next id of the table
FlushInsert(ledger, s) ==
    Append(ledger, PricingHistoryRow(s.loan_id, s.p, s.t, s.user_id, s.reason))

\* lines 127-129: commit.  pos is the id of the row inserted.
CommitPricing(w) ==
    LET s == sessions[w]
    IN  /\ s.state = "read"
        /\ loans' = [loans EXCEPT ![s.loan_id] = FlushUpdate(loans[s.loan_id], s)]
        /\ pricing_history' = FlushInsert(pricing_history, s)
        /\ sessions' = [sessions EXCEPT ![w] =
                           [s EXCEPT !.state = "committed"] @@ ("pos" :> Len(pricing_history) + 1)]
        /\ unchanged_since' = unchanged_since \cup {s.loan_id}
        /\ last' = Call("update_loan_pricing",
                        [loan_id |-> s.loan_id, user_id |-> s.user_id, reason |-> s.reason],
                        "ok", s.p)
        /\ UNCHANGED <<kpis, covenants, verifications, risk_assessments, sfdr_reports, now, esg_measurements>>

InitConcurrent ==
    /\ loans = (1 :> NewLoan(1000, Some(400), Some(200), "active", TRUE, Null))
               @@ (2 :> NewLoan(1000, Some(400), Some(200), "active", TRUE, Null))
    /\ kpis = <<>>
    /\ covenants = <<>>
    /\ verifications = <<>>
    /\ pricing_history = <<>>
    /\ risk_assessments = <<>>
    /\ sfdr_reports = <<>>
    /\ now = 0
    /\ unchanged_since = {}
    /\ sessions = NoSessions
    /\ esg_measurements = <<>>
    /\ last = NoCall

NextConcurrent ==
    \/ \E w \in Workers, loan_id \in CallIds : BeginPricing(w, loan_id, ApiCaller)
    \/ \E w \in Workers : CommitPricing(w)
    \/ \E kpi \in KpiRequests : CreateEsgKpi(kpi)
    \/ Tick

SpecConcurrent == InitConcurrent /\ [][NextConcurrent]_vars

----------------------------------------------------------------------------
(* C15: when two update_loan_pricing invocations for the same loan run       *)
(* concurrently and both read the same KPI snapshot, under every             *)
(* interleaving both PricingHistory rows are appended (no computation is     *)
(* lost from the ledger) and the loan's derived pricing fields end up equal  *)
(* to the values written by whichever invocation committed last.             *)

C15_Committed(w) == sessions[w].state = "committed"

\* u and w ran concurrently: each read before the other committed
C15_Concurrent(u, w) ==
    /\ sessions[u].seen < sessions[w].pos
    /\ sessions[w].seen < sessions[u].pos

\* since the two read, they are the only ones that committed for the loan, w last
C15_OnlyTheTwo(u, w) ==
    /\ sessions[u].pos < sessions[w].pos
    /\ \A i \in 1..Len(pricing_history) :
          (/\ pricing_history[i].loan_id = sessions[w].loan_id
           /\ (i > sessions[u].seen \/ i > sessions[w].seen))
             => i \in {sessions[u].pos, sessions[w].pos}

C15_Case(u, w) ==
    /\ u # w
    /\ C15_Committed(u) /\ C15_Committed(w)
    /\ sessions[u].loan_id = sessions[w].loan_id
    /\ sessions[u].kpis = sessions[w].kpis
    /\ C15_Concurrent(u, w)
    /\ C15_OnlyTheTwo(u, w)

C15_RowOf(w) ==
    [ loan_id |-> sessions[w].loan_id,
      effective_date |-> sessions[w].t,
      base_rate |-> sessions[w].p.base_rate,
      margin |-> sessions[w].p.new_margin,
      total_rate |-> sessions[w].p.new_total_rate,
      esg_performance_score |-> sessions[w].p.esg_performance_score,
      adjustment_reason |-> sessions[w].reason,
      adjustment_amount |-> sessions[w].p.margin_adjustment,
      created_by |-> sessions[w].user_id ]

C15_BothRowsLastWins ==
    \A u, w \in Workers :
        C15_Case(u, w) =>
            /\ sessions[w].pos <= Len(pricing_history)
            /\ pricing_history[sessions[u].pos] = C15_RowOf(u)
            /\ pricing_history[sessions[w].pos] = C15_RowOf(w)
            /\ LET loan == loans[sessions[w].loan_id]
                   p == sessions[w].p
               IN  /\ loan.esg_performance_score = <<p.esg_performance_score>>
                   /\ loan.pricing_tier = p.pricing_tier
                   /\ loan.current_margin = <<p.new_margin>>
                   /\ loan.margin_adjustment = <<p.margin_adjustment>>
                   /\ loan.last_pricing_update = <<sessions[w].t>>

\* the loan was priced at 50.0 before a KPI raised its score; A read before B
\* and at an earlier time, B committed first and A last
C15_Witness ==
    /\ C15_Case("B", "A")
    /\ sessions["A"].seen = 1 /\ sessions["B"].seen = 1
    /\ pricing_history[1].loan_id = sessions["A"].loan_id
    /\ pricing_history[1].esg_performance_score = 5000
    /\ sessions["A"].p.esg_performance_score = 10000
    /\ sessions["A"].t < sessions["B"].t
    /\ loans[sessions["A"].loan_id].last_pricing_update = <<sessions["A"].t>>

----------------------------------------------------------------------------
(* The rest of the CRUD layer: deleting a loan, covenants, measurements *)

\* a loan_id column that is NULL
NullId == 0

\* the rows of a table that reference the loan through a relationship of Loan
\* without a delete cascade: the flush of db.delete(loan) sets their loan_id
\* to NULL and keeps the rows
Orphaned(table, loan_id) ==
    [i \in 1..Len(table) |->
        IF table[i].loan_id = loan_id THEN [table[i] EXCEPT !.loan_id = NullId]
        ELSE table[i]]

\* LoanService.delete_loan.  Loan has a relationship to esg_kpis, covenants,
\* verifications, pricing_history and risk_assessments, and to sfdr_reports by
\* the backref of SFDRReport.loan.
DeleteLoan(loan_id) ==
    LET found == QueryLoan(loan_id)
        args == [loan_id |-> loan_id]
    IN  IF found = <<>>
        THEN /\ last' = Call("delete_loan", args, "not_found", <<>>)
             /\ UNCHANGED <<db, now, unchanged_since, sessions, esg_measurements>>
        ELSE /\ loans' = [i \in DOMAIN loans \ {found[1]} |-> loans[i]]
             /\ kpis' = Orphaned(kpis, loan_id)
             /\ covenants' = Orphaned(covenants, loan_id)
             /\ verifications' = Orphaned(verifications, loan_id)
             /\ pricing_history' = Orphaned(pricing_history, loan_id)
             /\ risk_assessments' = Orphaned(risk_assessments, loan_id)
             /\ sfdr_reports' = Orphaned(sfdr_reports, loan_id)
             /\ unchanged_since' = unchanged_since \ {loan_id}
             /\ last' = Call("delete_loan", args, "ok", <<>>)
             /\ UNCHANGED <<now, sessions, esg_measurements>>

\* POST /covenants/
CreateCovenant(covenant) ==
    IF QueryLoan(covenant.loan_id) = <<>>
    THEN /\ last' = Call("create_covenant", covenant, "not_found", <<>>)
         /\ UNCHANGED <<db, now, unchanged_since, sessions, esg_measurements>>
    ELSE /\ Len(covenants) < MaxCovenants
         /\ covenants' = Append(covenants, covenant)
         /\ last' = Call("create_covenant", covenant, "ok", Len(covenants) + 1)
         /\ UNCHANGED <<loans, kpis, verifications, pricing_history, risk_assessments,
                        sfdr_reports, now, unchanged_since, sessions, esg_measurements>>

\* lines 60-66 of update_covenant: the status follows the values when both are truthy
covenant_status(covenant) ==
    IF Truthy(covenant.threshold) /\ Truthy(covenant.current_value)
    THEN IF Val(covenant.current_value) < Val(covenant.threshold) THEN "breached"
         ELSE IF 10 * Val(covenant.current_value) < 11 * Val(covenant.threshold)
         THEN "at_risk"
         ELSE "compliant"
    ELSE covenant.status

\* PUT /covenants/{covenant_id}
UpdateCovenant(covenant_id, covenant) ==
    LET args == [covenant_id |-> covenant_id, covenant |-> covenant]
    IN  IF covenant_id \notin 1..Len(covenants)
        THEN /\ last' = Call("update_covenant", args, "not_found", <<>>)
             /\ UNCHANGED <<db, now, unchanged_since, sessions, esg_measurements>>
        ELSE /\ covenants' = [covenants EXCEPT ![covenant_id] =
                                 [covenant EXCEPT !.status = covenant_status(covenant)]]
             /\ last' = Call("update_covenant", args, "ok", <<>>)
             /\ UNCHANGED <<loans, kpis, verifications, pricing_history, risk_assessments,
                            sfdr_reports, now, unchanged_since, sessions, esg_measurements>>

\* the body of the request: ESGMeasurementCreate carries a kpi_id and a
\* measurement_date of its own
MeasurementBody(kpi_id, measured_value, verified_value, measurement_date) ==
    [ kpi_id |-> kpi_id, measured_value |-> measured_value,
      verified_value |-> verified_value, measurement_date |-> measurement_date ]

\* line 64: None > 0 raises TypeError for a KPI without a target
MeasurementRaises(kpi) == kpi.target_value = Null

\* line 64-70: the KPI's status from current_value / target_value x 100
measurement_status(kpi) ==
    LET target_achievement ==
            IF Val(kpi.target_value) > 0
            THEN <<Val(kpi.current_value) * 100, Val(kpi.target_value)>>
            ELSE <<0, 1>>
    IN  IF RLe(<<100, 1>>, target_achievement) THEN "achieved"
        ELSE IF RLe(<<80, 1>>, target_achievement) THEN "on_track"
        ELSE "at_risk"

\* POST /esg-kpis/{kpi_id}/measurements: the body is stored and committed as
\* it is, under the kpi_id it names; the KPI of the path then gets
\* verified_value or measured_value as its current value and its status
\* follows (on the KPI rows that carry a status) with a second commit
CreateMeasurement(kpi_id, measurement) ==
    LET args == [kpi_id |-> kpi_id, measurement |-> measurement]
        measured == [kpis[kpi_id] EXCEPT !.current_value =
                        IF Truthy(measurement.verified_value)
                        THEN measurement.verified_value
                        ELSE Some(measurement.measured_value)]
    IN  IF kpi_id \notin 1..Len(kpis)
        THEN /\ last' = Call("create_measurement", args, "not_found", <<>>)
             /\ UNCHANGED <<db, now, unchanged_since, sessions, esg_measurements>>
        ELSE IF MeasurementRaises(kpis[kpi_id])
        THEN /\ esg_measurements' = Append(esg_measurements, measurement)
             /\ last' = Call("create_measurement", args, "TypeError", <<>>)
             /\ UNCHANGED <<db, now, unchanged_since, sessions>>
        ELSE /\ esg_measurements' = Append(esg_measurements, measurement)
             /\ kpis' = [kpis EXCEPT ![kpi_id] =
                            IF "status" \in DOMAIN measured
                            THEN [measured EXCEPT !.status = measurement_status(measured)]
                            ELSE measured]
             /\ unchanged_since' = unchanged_since \ {kpis[kpi_id].loan_id}
             /\ last' = Call("create_measurement", args, "ok", <<>>)
             /\ UNCHANGED <<loans, covenants, verifications, pricing_history,
                            risk_assessments, sfdr_reports, now, sessions>>

----------------------------------------------------------------------------
(* The system with every operation that writes the tables the engines read *)

CovenantRequests ==
    [ loan_id : OwnerIds,
      covenant_type : {"minimum_ebitda"},
      threshold : {Some(2)},
      current_value : {Some(2)},
      status : {"compliant"} ]

CovenantUpdates ==
    [ loan_id : {1},
      covenant_type : {"minimum_ebitda"},
      threshold : {Some(2)},
      current_value : {Some(1)},
      status : {"compliant"} ]

\* one loan at a time: a loan is created when the table is empty, and the
\* requests name rows that exist
NextLedger ==
    \/ \E loan_data \in LoanRequests : DOMAIN loans = {} /\ CreateLoan(loan_data, TRUE)
    \/ \E loan_id \in DOMAIN loans, loan_data \in LoanUpdates : UpdateLoan(loan_id, loan_data)
    \/ \E loan_id \in DOMAIN loans : DeleteLoan(loan_id)
    \/ \E kpi \in KpiRequests :
         kpi.loan_id \in DOMAIN loans /\ Len(kpis) < MaxSparse /\ CreateEsgKpi(kpi)
    \/ \E kpi_id \in 1..Len(kpis) :
          Len(esg_measurements) < MaxSparse
          /\ CreateMeasurement(kpi_id, MeasurementBody(kpi_id, 1, Null, now))
    \/ \E covenant \in CovenantRequests :
         covenant.loan_id \in DOMAIN loans /\ Len(covenants) < MaxSparse
         /\ CreateCovenant(covenant)
    \/ \E covenant_id \in 1..Len(covenants), covenant \in CovenantUpdates :
         UpdateCovenant(covenant_id, covenant)
    \/ \E loan_id \in DOMAIN loans : UpdateLoanPricing(loan_id, ApiCaller)
    \/ \E loan_id \in DOMAIN loans : CreateRiskAssessment(loan_id)
    \/ \E loan_id \in DOMAIN loans, period \in Periods : GenerateSfdrReport(loan_id, period)

SpecLedger == Init /\ [][NextLedger]_vars

----------------------------------------------------------------------------
(* C16: across every sequence of operations of the system (pricing           *)
(* recalculation, risk assessment, SFDR report generation, and loan / KPI /  *)
(* covenant create, update and delete), a PricingHistory, RiskAssessment or  *)
(* SFDRReport row, once written, keeps every field value, its loan_id        *)
(* included, in all later states and is never removed.                       *)

C16_Kept(ledger, ledger2) ==
    /\ Len(ledger2) >= Len(ledger)
    /\ \A i \in 1..Len(ledger) : ledger2[i] = ledger[i]

C16_Step ==
    /\ C16_Kept(pricing_history, pricing_history')
    /\ C16_Kept(risk_assessments, risk_assessments')
    /\ C16_Kept(sfdr_reports, sfdr_reports')

C16_LedgerRowsNeverChange == [][C16_Step]_vars

----------------------------------------------------------------------------
(* User edits of a loan: the request bodies the loan schemas accept *)

\* the columns of loans the pricing and risk engines write
DerivedFields ==
    {"esg_performance_score", "pricing_tier", "margin_adjustment",
     "last_pricing_update", "risk_score", "risk_category"}

\* the fields LoanBase and LoanUpdate declare, of those the rows carry
LoanSchemaFields ==
    {"amount", "interest_rate", "base_margin", "current_margin",
     "maturity_date", "status", "sustainability_linked"}

\* the fields of a body the schema reads, were it to allow extra fields
SchemaDump_allow_extra(body) == body

\* model_dump of a schema built from a request body: a field the schema does
\* not declare is ignored
SchemaDump(body) == [f \in DOMAIN body \cap LoanSchemaFields |-> body[f]]

\* LoanUpdate: every field optional, model_dump(exclude_unset=True)
LoanUpdate(body) == SchemaDump(body)

\* LoanCreate: amount required, the other fields at the schema's defaults;
\* Loan(**model_dump()) leaves the other columns at the table's defaults
LoanCreate(body) ==
    SetAttrs(NewLoan(body.amount, Null, Null, "active", TRUE, Null), SchemaDump(body))

\* bodies of PUT /loans/{id}: edits of the schema's fields, with and without
\* fields that name derived columns
LoanUpdateBodies ==
    { [base_margin |-> Some(0)],
      [current_margin |-> Some(100), risk_score |-> Some(0), risk_category |-> "low"],
      [status |-> "defaulted", esg_performance_score |-> Some(10000),
       pricing_tier |-> "excellent", margin_adjustment |-> Some(-50)],
      [sustainability_linked |-> FALSE, last_pricing_update |-> Some(0)] }

\* bodies of POST /loans/
LoanCreateBodies ==
    { [amount |-> 1000, interest_rate |-> Some(400), base_margin |-> Some(200)],
      [amount |-> 1000, base_margin |-> Some(200), risk_score |-> Some(0),
       pricing_tier |-> "excellent", margin_adjustment |-> Some(-50)] }

\* one loan, edited by its users and written by the engines
NextEdit ==
    \/ \E body \in LoanCreateBodies :
          DOMAIN loans = {} /\ CreateLoan(LoanCreate(body), TRUE)
    \/ \E loan_id \in OwnerIds, body \in LoanUpdateBodies :
          UpdateLoan(loan_id, LoanUpdate(body))
    \/ \E kpi \in KpiRequests :
          kpi.loan_id \in DOMAIN loans /\ CreateEsgKpi(kpi)
    \/ \E loan_id \in DOMAIN loans : UpdateLoanPricing(loan_id, ApiCaller)
    \/ \E loan_id \in DOMAIN loans : CreateRiskAssessment(loan_id)

SpecEdit == Init /\ [][NextEdit]_vars

\* the six derived columns of a row
C17_Derived(loan) == [f \in DerivedFields |-> loan[f]]

\* a loan as the table first holds it: nothing derived yet
C17_Defaults == C17_Derived(NewLoan(1000, Null, Null, "active", TRUE, Null))

\* a step of create_loan or update_loan that succeeded
C17_Edit == last'.outcome = "ok" /\ last'.op \in {"create_loan", "update_loan"}

\* C17: LoanService.create_loan and LoanService.update_loan never set or
\* change a derived field: every loan that existed keeps its six derived
\* fields across the edit, whatever the request body names, and a loan the
\* edit creates has them at their initial defaults.
C17_Step ==
    C17_Edit =>
        \A id \in DOMAIN loans' :
            C17_Derived(loans'[id]) =
                IF id \in DOMAIN loans THEN C17_Derived(loans[id]) ELSE C17_Defaults

C17_EditsKeepDerived == [][C17_Step]_vars

\* an update whose body named derived fields went through on a loan the
\* pricing and risk engines have both written
C17_Witness ==
    /\ last.op = "update_loan"
    /\ last.outcome = "ok"
    /\ DOMAIN last.args.loan_data = {"status"}
    /\ loans[last.args.loan_id].status = "defaulted"
    /\ loans[last.args.loan_id].pricing_tier # NoneStr
    /\ loans[last.args.loan_id].risk_category # NoneStr
    /\ loans[last.args.loan_id].pricing_tier # "excellent"

----------------------------------------------------------------------------
(* The margin adjustments of two scores *)

\* the scores at which a tier begins, and the scores next to them
TierEdges ==
    {s \in Scores : \E i \in 1..Len(pricing_tiers), d \in {-1, 0, 1} :
                       s = pricing_tiers[i].threshold * Scale + d}
        \cup {MaxScore}

\* calculate_margin_adjustment applied to each of two scores
CompareMarginAdjustments ==
    /\ Pending("compare_margin_adjustments")
    /\ last' = Call(last.op, last.args, "ok",
                    [ a |-> calculate_margin_adjustment(last.args.a),
                      b |-> calculate_margin_adjustment(last.args.b) ])
    /\ UNCHANGED <<db, now, unchanged_since, sessions, esg_measurements>>

\* any score with any tier edge, the smaller one first
InitCompare ==
    /\ EmptyDb
    /\ \E x \in Scores, y \in TierEdges :
         /\ x # y
         /\ last = Call("compare_margin_adjustments",
                        [a |-> IF x < y THEN x ELSE y, b |-> IF x < y THEN y ELSE x],
                        "pending", <<>>)

NextCompare == CompareMarginAdjustments

SpecCompare == InitCompare /\ [][NextCompare]_vars

\* C18: pricing tier selection is monotonic: of two scores a < b in [0,100],
\* the margin adjustment selected for a is greater than or equal to the one
\* selected for b.
C18_TierMonotonic ==
    (last.op = "compare_margin_adjustments" /\ last.outcome = "ok" /\ last.args.a < last.args.b)
        => last.result.a >= last.result.b

\* two scores a hundredth of a point apart, on the two sides of the
\* threshold of "excellent": the lower one pays 0.25 points more
C18_Witness ==
    /\ last.op = "compare_margin_adjustments"
    /\ last.outcome = "ok"
    /\ last.args.a = 90 * Scale - 1
    /\ last.args.b = 90 * Scale
    /\ last.result.a = -25
    /\ last.result.b = -50

----------------------------------------------------------------------------
(* GET /pricing/tiers: the tier structure the API publishes *)

\* the "pricing_tiers" list of the response: whole-number score ranges and
\* adjustments in basis points
published_tiers ==
    << [tier |-> "excellent", min |-> 85, max |-> 100, margin_adjustment_bps |-> -50],
       [tier |-> "good",      min |-> 70, max |-> 84,  margin_adjustment_bps |-> -25],
       [tier |-> "fair",      min |-> 50, max |-> 69,  margin_adjustment_bps |-> 0],
       [tier |-> "poor",      min |-> 30, max |-> 49,  margin_adjustment_bps |-> 25],
       [tier |-> "critical",  min |-> 0,  max |-> 29,  margin_adjustment_bps |-> 50] >>

\* the whole-number scores of [0,100]
WholeScores == 0..(MaxScore \div Scale)

\* get_pricing_tiers: the same response for every caller; the caller holds a
\* score to look up in it
GetPricingTiers ==
    /\ Pending("get_pricing_tiers")
    /\ last' = Call(last.op, last.args, "ok", published_tiers)
    /\ UNCHANGED <<db, now, unchanged_since, sessions, esg_measurements>>

InitTiers ==
    /\ EmptyDb
    /\ \E s \in WholeScores :
         last = Call("get_pricing_tiers", [esg_score |-> s], "pending", <<>>)

NextTiers == GetPricingTiers

SpecTiers == InitTiers /\ [][NextTiers]_vars

\* the entries of a published list whose score_range contains a score
C19_Containing(tiers, s) ==
    {i \in 1..Len(tiers) : tiers[i].min <= s /\ s <= tiers[i].max}

\* basis points of an adjustment held in hundredths of a point
C19_Bps(adjustment) == (adjustment * 100) \div Scale

\* C19: the tier structure get_pricing_tiers returns describes the mapping
\* the pricing engine applies: for every whole score in 0..100 the published
\* tier whose score_range contains the score is the tier
\* determine_pricing_tier returns for it, and its margin_adjustment_bps is
\* 100 times the engine's adjustment for that tier.
C19_PublishedTiersAreEngineTiers ==
    (last.op = "get_pricing_tiers" /\ last.outcome = "ok") =>
        \A i \in C19_Containing(last.result, last.args.esg_score) :
            /\ last.result[i].tier = determine_pricing_tier(last.args.esg_score * Scale)
            /\ last.result[i].margin_adjustment_bps =
                  C19_Bps(TierConfig(last.result[i].tier).adjustment)

----------------------------------------------------------------------------
(* C20: which KPIs the ESG scorer leaves out *)

\* a KPI the claim has contribute: its three values present, whatever their
\* value, and its target off its baseline
C20_Included(k) ==
    /\ k.target_value # Null /\ k.current_value # Null /\ k.baseline_value # Null
    /\ k.target_value # k.baseline_value

\* min(|current - baseline| / |target - baseline| x 100, 100), a rational
C20_Achievement(k) ==
    LET tp == Abs(k.target_value[1] - k.baseline_value[1])
        cp == Abs(k.current_value[1] - k.baseline_value[1])
    IN  IF cp >= tp THEN <<100, 1>> ELSE <<100 * cp, tp>>

\* the achievements the claim has category c receive from the KPIs of the
\* loan from the i-th on, in the table's order
RECURSIVE C20_Contributions(_, _)
C20_Contributions(c, i) ==
    IF i > Len(kpis) THEN <<>>
    ELSE (IF /\ kpis[i].loan_id = last.args.loan_id
             /\ C20_Included(kpis[i])
             /\ KpiCategory(kpis[i]) = c
          THEN <<C20_Achievement(kpis[i])>> ELSE <<>>)
         \o C20_Contributions(c, i + 1)

C20_SameValues(xs, ys) ==
    /\ Len(xs) = Len(ys)
    /\ \A j \in 1..Len(xs) : xs[j][1] * ys[j][2] = ys[j][1] * xs[j][2]

\* C20: a KPI is excluded from ESG score aggregation only when
\* |target - baseline| = 0 or one of baseline, current, target is null;
\* every KPI whose three values are all present, for every numeric value,
\* with target # baseline contributes
\* min(|current - baseline| / |target - baseline| x 100, 100) to its category.
C20_ExcludedOnlyWhenUndefined ==
    (last.op = "calculate_esg_performance_score" /\ last.outcome = "ok") =>
        \A c \in ScoredCategories :
            C20_SameValues(last.result.category_scores[c], C20_Contributions(c, 1))

----------------------------------------------------------------------------
(* C21: no ratio computation of the engines raises on a zero denominator:   *)
(* a KPI with target = baseline, a covenant with threshold 0 and a loan     *)
(* with no qualifying KPI are left out of the computation or replaced by    *)
(* the default, for every input: no engine call ends in ZeroDivisionError.  *)

C21_NoZeroDenominatorRaises ==
    (last.op \in C5_Engines /\ last.args.loan_id \in DOMAIN loans) =>
        last.outcome # "ZeroDivisionError"

----------------------------------------------------------------------------
(* The breach probability of one covenant, by covenant type *)

\* covenant types: two of the engine's lists, a minimum and a maximum type
\* that are in neither list, and a type with neither prefix
CovenantTypes ==
    {"minimum_ebitda", "minimum_liquidity", "maximum_leverage", "maximum_capex",
     "interest_cover"}

\* one measured covenant, its current value from under half to over twice
\* its threshold
TypedCovenantRows ==
    [ loan_id : {1},
      covenant_type : CovenantTypes,
      threshold : {Some(50), Some(100), Some(200)},
      current_value : {Some(40), Some(55), Some(95), Some(105), Some(115),
                       Some(125), Some(210), Some(250)},
      status : {"compliant"} ]

InitDistance ==
    /\ loans = (1 :> NewLoan(1000, Some(400), Some(200), "active", TRUE, Null))
    /\ kpis = <<>>
    /\ covenants \in [1..1 -> TypedCovenantRows]
    /\ verifications = <<>>
    /\ pricing_history = <<>>
    /\ risk_assessments = <<>>
    /\ sfdr_reports = <<>>
    /\ now = 0
    /\ unchanged_since = {}
    /\ sessions = NoSessions
    /\ esg_measurements = <<>>
    /\ last = Call("calculate_covenant_breach_probability", [loan_id |-> 1], "pending", <<>>)

NextDistance == CalculateCovenantBreachProbability

SpecDistance == InitDistance /\ [][NextDistance]_vars

\* the covenant types that begin with "maximum_"
C22_MaximumStyle == {"maximum_leverage", "maximum_capex"}

\* threshold x distance as the claim has it: threshold - current for a type
\* that begins with "maximum_", current - threshold for every other type
C22_Margin(c) ==
    IF c.covenant_type \in C22_MaximumStyle
    THEN c.threshold[1] - c.current_value[1]
    ELSE c.current_value[1] - c.threshold[1]

\* the indicator of that distance, in tenths, the threshold positive
C22_Indicator(c) ==
    IF C22_Margin(c) < 0 THEN 10
    ELSE IF 10 * C22_Margin(c) < c.threshold[1] THEN 8
    ELSE IF 10 * C22_Margin(c) < 2 * c.threshold[1] THEN 5
    ELSE 1

\* C22: in calculate_covenant_breach_probability every covenant whose
\* covenant_type begins with "minimum_" uses
\* distance = (current - threshold) / threshold, every covenant whose type
\* begins with "maximum_" uses (threshold - current) / threshold, and a
\* covenant of any other type uses the minimum-style formula: the probability
\* of a loan with one covenant is 100 x the indicator of that distance.
C22_DistanceByPrefix ==
    (/\ last.op = "calculate_covenant_breach_probability"
     /\ last.outcome = "ok"
     /\ Len(covenants) = 1)
        => last.result = 10 * Scale * C22_Indicator(covenants[1])

----------------------------------------------------------------------------
(* calculate_financial_risk_score over statuses, verifications and maturities *)

MaxVerifications == 6

\* loan statuses: the five of the lookup, one it does not know, and none
LoanStatuses ==
    {"active", "under_review", "at_risk", "defaulted", "restructured", "pending", NoneStr}

\* maturities on the two sides of each bucket's edge, and none
EdgeMaturities ==
    {Null, Some(MaturityNear - 1), Some(MaturityNear), Some(MaturitySoon - 1), Some(MaturitySoon)}

\* verification tables of the loan: n rows, dated in the order they were
\* written or in the reverse order, each failed or not
DatedVerificationTables ==
    UNION { { [i \in 1..n |-> [ loan_id |-> 1,
                                 verification_date |-> IF up THEN i ELSE n + 1 - i,
                                 status |-> st[i] ]] :
                st \in [1..n -> {"failed", "compliant"}], up \in BOOLEAN }
            : n \in 0..MaxVerifications }

CalculateFinancialRiskScore ==
    /\ Pending("calculate_financial_risk_score")
    /\ last' = Call(last.op, last.args, "ok",
                    calculate_financial_risk_score(last.args.loan_id, now))
    /\ UNCHANGED <<db, now, unchanged_since, sessions, esg_measurements>>

InitFinancial ==
    /\ \E status \in LoanStatuses, maturity_date \in EdgeMaturities :
         loans = (1 :> NewLoan(1000, Some(400), Some(200), status, TRUE, maturity_date))
    /\ kpis = <<>>
    /\ covenants = <<>>
    /\ verifications \in DatedVerificationTables
    /\ pricing_history = <<>>
    /\ risk_assessments = <<>>
    /\ sfdr_reports = <<>>
    /\ now = 0
    /\ unchanged_since = {}
    /\ sessions = NoSessions
    /\ esg_measurements = <<>>
    /\ last = Call("calculate_financial_risk_score", [loan_id |-> 1], "pending", <<>>)

NextFinancial == CalculateFinancialRiskScore

SpecFinancial == InitFinancial /\ [][NextFinancial]_vars

----------------------------------------------------------------------------
(* C23 (as amended): calculate_financial_risk_score returns the arithmetic  *)
(* mean, ROUNDED TO TWO DECIMALS, of exactly the sub-indicators that can be *)
(* computed among: the loan-status lookup (active 20, under_review 40,      *)
(* at_risk 70, defaulted 100, restructured 60, any other status 50); 100 x  *)
(* the fraction of the loan's 5 most recent Verification records whose      *)
(* status is "failed" (only if the loan has a verification); the maturity   *)
(* bucket (<30 days 80, <90 days 50, else 20; only if a maturity date is    *)
(* set). An unavailable sub-indicator is left out of the mean.              *)

C23_Answered == last.op = "calculate_financial_risk_score" /\ last.outcome = "ok"

C23_Loan == loans[last.args.loan_id]

C23_Status ==
    CASE C23_Loan.status = "active" -> 20
      [] C23_Loan.status = "under_review" -> 40
      [] C23_Loan.status = "at_risk" -> 70
      [] C23_Loan.status = "defaulted" -> 100
      [] C23_Loan.status = "restructured" -> 60
      [] OTHER -> 50

\* the loan's verifications with fewer than 5 later ones
C23_Recent ==
    {i \in 1..Len(verifications) :
        /\ verifications[i].loan_id = last.args.loan_id
        /\ Cardinality({j \in 1..Len(verifications) :
                           /\ verifications[j].loan_id = last.args.loan_id
                           /\ verifications[j].verification_date
                                > verifications[i].verification_date}) < 5}

C23_Failed == {i \in C23_Recent : verifications[i].status = "failed"}

C23_Days == C23_Loan.maturity_date[1] - now

C23_Bucket == IF C23_Days < 30 THEN 80 ELSE IF C23_Days < 90 THEN 50 ELSE 20

\* the number of sub-indicators that can be computed
C23_Count ==
    1 + (IF C23_Recent # {} THEN 1 ELSE 0) + (IF C23_Loan.maturity_date # Null THEN 1 ELSE 0)

\* their mean, a rational
C23_Mean ==
    LET n == IF C23_Recent # {} THEN Cardinality(C23_Recent) ELSE 1
    IN  << C23_Status * n
           + (IF C23_Recent # {} THEN 100 * Cardinality(C23_Failed) ELSE 0)
           + (IF C23_Loan.maturity_date # Null THEN C23_Bucket * n ELSE 0),
           n * C23_Count >>

C23_RoundedMean ==
    C23_Answered =>
        2 * Abs(last.result * C23_Mean[2] - Scale * C23_Mean[1]) <= C23_Mean[2]

\* an active loan with no maturity date and one failed verification of
\* three: (20 + 33.33...) / 2 = 26.666..., returned as 26.67
C23_Witness ==
    /\ C23_Answered
    /\ C23_Loan.status = "active"
    /\ C23_Loan.maturity_date = Null
    /\ Cardinality(C23_Recent) = 3
    /\ Cardinality(C23_Failed) = 1
    /\ last.result = 2667

\* the claim as stated: the mean itself
C23_ExactMean ==
    C23_Answered => last.result * C23_Mean[2] = Scale * C23_Mean[1]

----------------------------------------------------------------------------
(* predict_breach_date over every covenant table *)

\* covenants of the loan: a minimum type of the engine's list, a minimum
\* type outside it and a maximum type; the current value below, at and above
\* the threshold, and at and beyond 1.1 x the threshold
ProjectionCovenantRows ==
    [ loan_id : {1},
      covenant_type : {"minimum_ebitda", "minimum_liquidity", "maximum_leverage"},
      threshold : {Null, Some(100)},
      current_value : {Null, Some(95), Some(100), Some(104), Some(108), Some(110), Some(120)},
      status : {"compliant", "terminated"} ]

PredictBreachDate ==
    /\ Pending("predict_breach_date")
    /\ last' = Call(last.op, last.args, "ok", predict_breach_date(last.args.loan_id, now))
    /\ UNCHANGED <<db, now, unchanged_since, sessions, esg_measurements>>

InitProjection ==
    /\ loans = (1 :> NewLoan(1000, Some(400), Some(200), "active", TRUE, Null))
    /\ kpis = <<>>
    /\ covenants \in Tables(ProjectionCovenantRows \cup OtherLoanCovenantRows, MaxCovenants)
    /\ verifications = <<>>
    /\ pricing_history = <<>>
    /\ risk_assessments = <<>>
    /\ sfdr_reports = <<>>
    /\ now = 0
    /\ unchanged_since = {}
    /\ sessions = NoSessions
    /\ esg_measurements = <<>>
    /\ last = Call("predict_breach_date", [loan_id |-> 1], "pending", <<>>)

NextProjection == PredictBreachDate

SpecProjection == InitProjection /\ [][NextProjection]_vars

\* the covenant types that begin with "minimum_"
C24_MinimumStyle == {"minimum_ebitda", "minimum_liquidity"}

\* the covenants the claim accepts: non-terminated, of a minimum type, both
\* values set, current < threshold x 1.1 and
\* 0 < (current - threshold) / (threshold x 0.05) < 12, the threshold positive
C24_Accepted ==
    {i \in 1..Len(covenants) :
        /\ covenants[i].loan_id = last.args.loan_id
        /\ covenants[i].status # "terminated"
        /\ covenants[i].covenant_type \in C24_MinimumStyle
        /\ covenants[i].current_value # Null
        /\ covenants[i].threshold # Null
        /\ 10 * covenants[i].current_value[1] < 11 * covenants[i].threshold[1]
        /\ 0 < 20 * (covenants[i].current_value[1] - covenants[i].threshold[1])
        /\ 20 * (covenants[i].current_value[1] - covenants[i].threshold[1])
             < 12 * covenants[i].threshold[1]}

\* now + int(months x 30) days
C24_Date(c) == now + (600 * (c.current_value[1] - c.threshold[1])) \div c.threshold[1]

\* C24: predict_breach_date considers only non-terminated covenants of
\* "minimum_*" type with current < threshold x 1.1, computes
\* months = (current - threshold) / (threshold x 0.05) for each, accepts a
\* covenant only when 0 < months < 12, and returns the earliest projected
\* date over all accepted covenants, or none when no covenant is accepted; a
\* covenant already below its threshold yields no date.
C24_EarliestOfMinimumCovenants ==
    (last.op = "predict_breach_date" /\ last.outcome = "ok") =>
        IF C24_Accepted = {} THEN last.result = Null
        ELSE /\ last.result # Null
             /\ \E i \in C24_Accepted : last.result[1] = C24_Date(covenants[i])
             /\ \A i \in C24_Accepted : last.result[1] <= C24_Date(covenants[i])

----------------------------------------------------------------------------
(* Risk assessments of two loans whose status is edited between them *)

\* status edits: the status lookup gives active 20, pending 50, restructured 60
\* and defaulted 100
StatusUpdates == {[status |-> s] : s \in {"active", "pending", "restructured", "defaulted"}}

InitTrend ==
    /\ loans = (1 :> NewLoan(1000, Some(400), Some(200), "active", TRUE, Null))
               @@ (2 :> NewLoan(1000, Some(400), Some(200), "active", TRUE, Null))
    /\ kpis = <<>>
    /\ covenants = <<>>
    /\ verifications = <<>>
    /\ pricing_history = <<>>
    /\ risk_assessments = <<>>
    /\ sfdr_reports = <<>>
    /\ now = 0
    /\ unchanged_since = {}
    /\ sessions = NoSessions
    /\ esg_measurements = <<>>
    /\ last = NoCall

NextTrend ==
    \/ \E loan_data \in StatusUpdates : UpdateLoan(1, loan_data)
    \/ UpdateLoan(2, [status |-> "defaulted"])
    \/ \E loan_id \in DOMAIN loans : CreateRiskAssessment(loan_id)
    \/ Tick

SpecTrend == InitTrend /\ [][NextTrend]_vars

----------------------------------------------------------------------------
(* C25 (as amended): the trend reported by create_risk_assessment compares  *)
(* the two most recent persisted RiskAssessment rows of the loan, THE ROW   *)
(* THE CALL HAS JUST WRITTEN BEING THE MORE RECENT ONE: "increasing" if its *)
(* score exceeds the earlier by more than 5 points, "decreasing" if it is   *)
(* lower by more than 5, otherwise "stable"; the trend is "stable" WHEN NO  *)
(* RiskAssessment ROW EXISTED for the loan before the call.                 *)

C25_Assessed == last.op = "create_risk_assessment" /\ last.outcome = "ok"

\* the loan's rows, in the order written; the last is the call's own
C25_Rows == SelectSeq(risk_assessments, LAMBDA a : a.loan_id = last.args.loan_id)

\* the trend of two scores
C25_Trend(recent, previous) ==
    IF recent - previous > 5 * Scale THEN "increasing"
    ELSE IF previous - recent > 5 * Scale THEN "decreasing"
    ELSE "stable"

C25_TrendOverOwnRow ==
    C25_Assessed =>
        /\ C25_Rows # <<>>
        /\ C25_Rows[Len(C25_Rows)].risk_score = last.result.overall_risk_score
        /\ last.result.trend =
              IF Len(C25_Rows) < 2 THEN "stable"
              ELSE C25_Trend(C25_Rows[Len(C25_Rows)].risk_score,
                             C25_Rows[Len(C25_Rows) - 1].risk_score)

\* the second assessment of a loan, after a row of the other loan and a
\* change of status, reports a rising risk
C25_Witness ==
    /\ C25_Assessed
    /\ Len(C25_Rows) = 2
    /\ Len(risk_assessments) = 3
    /\ risk_assessments[2].loan_id # last.args.loan_id
    /\ last.result.trend = "increasing"

\* the claim as stated: stable whenever fewer than 2 rows existed before the
\* call
C25_StableWithOneRowBefore ==
    C25_Assessed =>
        last.result.trend =
            IF Len(C25_Rows) - 1 < 2 THEN "stable"
            ELSE C25_Trend(C25_Rows[Len(C25_Rows)].risk_score,
                           C25_Rows[Len(C25_Rows) - 1].risk_score)

----------------------------------------------------------------------------
(* calculate_sustainable_investment_percentage over every KPI table *)

MaxQualifying == 4

\* KPIs of the loan: target and current value missing, 0.0 or set, the
\* current value under and at 0.8 x the target
ComplianceKpiRows ==
    [ loan_id : {1},
      kpi_name : {"Energy intensity"},
      kpi_category : {"environmental"},
      target_value : {Some(0), Some(10)},
      current_value : {Null, Some(0), Some(7), Some(8)},
      baseline_value : {Null} ]
    \cup
    [ loan_id : {1},
      kpi_name : {"Energy intensity"},
      kpi_category : {"environmental"},
      target_value : {Null},
      current_value : {Some(8)},
      baseline_value : {Null} ]

CalculateSustainableInvestmentPercentage ==
    /\ Pending("calculate_sustainable_investment_percentage")
    /\ last' = Call(last.op, last.args, "ok",
                    calculate_sustainable_investment_percentage(last.args.loan_id))
    /\ UNCHANGED <<db, now, unchanged_since, sessions, esg_measurements>>

InitSustainable ==
    /\ \E sustainability_linked \in BOOLEAN :
         loans = (1 :> NewLoan(1000, Some(400), Some(200), "active",
                               sustainability_linked, Null))
    /\ kpis \in Tables(ComplianceKpiRows, MaxQualifying)
    /\ covenants = <<>>
    /\ verifications = <<>>
    /\ pricing_history = <<>>
    /\ risk_assessments = <<>>
    /\ sfdr_reports = <<>>
    /\ now = 0
    /\ unchanged_since = {}
    /\ sessions = NoSessions
    /\ esg_measurements = <<>>
    /\ last = Call("calculate_sustainable_investment_percentage", [loan_id |-> 1],
                   "pending", <<>>)

NextSustainable == CalculateSustainableInvestmentPercentage

SpecSustainable == InitSustainable /\ [][NextSustainable]_vars

\* the loan's KPIs that have target and current set
C26_N ==
    {i \in 1..Len(kpis) :
        /\ kpis[i].loan_id = last.args.loan_id
        /\ kpis[i].target_value # Null
        /\ kpis[i].current_value # Null}

\* those with current >= target x 0.8
C26_D == {i \in C26_N : 10 * kpis[i].current_value[1] >= 8 * kpis[i].target_value[1]}

\* C26: for a sustainability-linked loan,
\* calculate_sustainable_investment_percentage returns a value in
\* {0, 50, 75, 100}: with N the number of the loan's KPIs that have target
\* and current set and D the number of those with current >= target x 0.8,
\* it returns 100 if D/N >= 90%, 75 if D/N >= 75%, 50 if D/N >= 50% and 0
\* otherwise, and 0 when N = 0.
C26_StepFunctionOfComplianceRate ==
    (/\ last.op = "calculate_sustainable_investment_percentage"
     /\ last.outcome = "ok"
     /\ loans[last.args.loan_id].sustainability_linked)
        => last.result =
              IF C26_N = {} THEN 0
              ELSE IF 100 * Cardinality(C26_D) >= 90 * Cardinality(C26_N) THEN 100
              ELSE IF 100 * Cardinality(C26_D) >= 75 * Cardinality(C26_N) THEN 75
              ELSE IF 100 * Cardinality(C26_D) >= 50 * Cardinality(C26_N) THEN 50
              ELSE 0

----------------------------------------------------------------------------
(* assess_eu_taxonomy_alignment over every KPI table *)

MaxClimate == 3

\* KPIs of the loan: a carbon KPI and one that is not; the target missing,
\* 0.0 or set, the current value missing or at 70% and 80% of the target
TaxonomyKpiRows ==
    [ loan_id : {1},
      kpi_name : {"Carbon Emissions", "Energy intensity"},
      kpi_category : {"environmental"},
      target_value : {Null, Some(0), Some(10)},
      current_value : {Null, Some(7), Some(8)},
      baseline_value : {Null} ]

\* the division of line 176 raises TypeError on a missing current value
AssessEuTaxonomyAlignment ==
    /\ Pending("assess_eu_taxonomy_alignment")
    /\ IF TaxonomyRaises(last.args.loan_id)
       THEN last' = Call(last.op, last.args, "TypeError", <<>>)
       ELSE last' = Call(last.op, last.args, "ok",
                         assess_eu_taxonomy_alignment(last.args.loan_id))
    /\ UNCHANGED <<db, now, unchanged_since, sessions, esg_measurements>>

InitTaxonomy ==
    /\ loans = (1 :> NewLoan(1000, Some(400), Some(200), "active", TRUE, Null))
    /\ kpis \in Tables(TaxonomyKpiRows, MaxClimate)
    /\ covenants = <<>>
    /\ verifications = <<>>
    /\ pricing_history = <<>>
    /\ risk_assessments = <<>>
    /\ sfdr_reports = <<>>
    /\ now = 0
    /\ unchanged_since = {}
    /\ sessions = NoSessions
    /\ esg_measurements = <<>>
    /\ last = Call("assess_eu_taxonomy_alignment", [loan_id |-> 1], "pending", <<>>)

NextTaxonomy == AssessEuTaxonomyAlignment

SpecTaxonomy == InitTaxonomy /\ [][NextTaxonomy]_vars

\* the loan's carbon/emission KPIs for which current / target x 100 is
\* computed: the target set and positive
C27_Computed ==
    {i \in 1..Len(kpis) :
        /\ kpis[i].loan_id = last.args.loan_id
        /\ kpis[i].kpi_name = "Carbon Emissions"
        /\ kpis[i].target_value # Null
        /\ kpis[i].target_value[1] > 0
        /\ kpis[i].current_value # Null}

\* the sum of current / target over a set of KPIs whose target is 10
RECURSIVE C27_Sum(_)
C27_Sum(S) ==
    IF S = {} THEN 0
    ELSE LET i == CHOOSE j \in S : TRUE
         IN  kpis[i].current_value[1] + C27_Sum(S \ {i})

\* their average is at least 75%: every target of the model is 10
C27_AverageMeets ==
    /\ C27_Computed # {}
    /\ \A i \in C27_Computed : kpis[i].target_value[1] = 10
    /\ 100 * C27_Sum(C27_Computed) >= 75 * 10 * Cardinality(C27_Computed)

\* C27: assess_eu_taxonomy_alignment reports climate_change_mitigation as
\* aligned exactly when the average of current / target x 100 over the
\* loan's carbon/emission KPIs for which it is computed is >= 75, and reports
\* the other five EU objectives as not aligned, for every KPI set on which it
\* returns.
C27_AlignedByAverage ==
    (last.op = "assess_eu_taxonomy_alignment" /\ last.outcome = "ok") =>
        /\ last.result["climate_change_mitigation"].aligned = C27_AverageMeets
        /\ \A o \in environmental_objectives \ {"climate_change_mitigation"} :
              ~last.result[o].aligned

----------------------------------------------------------------------------
(* VerificationService.run_verification and the API manager it calls *)

\* ESGKpi.id of the loan's KPIs, in the order of the query
KpiIdsOf(loan_id) == {k \in 1..Len(kpis) : kpis[k].loan_id = loan_id}

\* order_by(measurement_date.desc()).first(): a measurement of the KPI with
\* the newest date, any of them when several share it; <<>> when it has none
LatestMeasurements(kpi_id) ==
    LET own == {m \in 1..Len(esg_measurements) :
                    esg_measurements[m].kpi_id = kpi_id}
    IN  IF own = {} THEN {Null}
        ELSE {<<esg_measurements[m]>> : m \in
                 {m \in own : \A o \in own :
                     esg_measurements[o].measurement_date
                         <= esg_measurements[m].measurement_date}}

\* what the loop's queries can return, per KPI of the loan
LatestChoices(loan_id) ==
    LET ids == KpiIdsOf(loan_id)
    IN  {f \in [ids -> UNION {LatestMeasurements(k) : k \in ids}] :
            \A k \in ids : f[k] \in LatestMeasurements(k)}

\* line 80-94: the KPIs that have a measurement, the breached ones among them
VerifiedKpis(loan_id, latest) == {k \in KpiIdsOf(loan_id) : latest[k] # Null}

BreachedKpis(loan_id, latest) ==
    {k \in VerifiedKpis(loan_id, latest) : kpis[k].status = "breached"}

\* line 88: None != 0 is true and the subtraction of None raises TypeError
DiscrepancyRaises(loan_id, latest) ==
    \E k \in VerifiedKpis(loan_id, latest) : kpis[k].target_value = Null

\* line 88-92: abs((measured - target) / target) * 100, nothing for target 0
discrepancy(kpi, measurement) ==
    IF Val(kpi.target_value) # 0
    THEN <<Abs(measurement.measured_value - Val(kpi.target_value)) * 100,
           Abs(Val(kpi.target_value))>>
    ELSE <<0, 1>>

RECURSIVE total_discrepancy(_, _)
total_discrepancy(S, latest) ==
    IF S = {} THEN <<0, 1>>
    ELSE LET k == MinOf(S)
         IN  RAdd(discrepancy(kpis[k], Val(latest[k])),
                  total_discrepancy(S \ {k}, latest))

\* line 98: total_discrepancy / verified_count
avg_discrepancy(loan_id, latest) ==
    LET S == VerifiedKpis(loan_id, latest)
        t == total_discrepancy(S, latest)
    IN  <<t[1], t[2] * Cardinality(S)>>

\* line 101-108: the confidence of the internal verification, in points
internal_confidence(avg) ==
    IF RLt(avg, <<5, 1>>) THEN 95
    ELSE IF RLt(avg, <<10, 1>>) THEN 85
    ELSE IF RLt(avg, <<20, 1>>) THEN 75
    ELSE 60

\* a run with breached KPIs recorded as a failed verification
verification_status_failed(breached_count, avg) ==
    IF breached_count > 0 THEN "failed"
    ELSE IF RLt(<<10, 1>>, avg) THEN "at_risk"
    ELSE "compliant"

\* line 156-164
verification_status(breached_count, avg) ==
    IF breached_count > 0 THEN "breached"
    ELSE IF RLt(<<10, 1>>, avg) THEN "at_risk"
    ELSE "compliant"

verification_risk_level(status) ==
    CASE status = "breached" -> "high"
      [] status = "at_risk" -> "medium"
      [] OTHER -> "low"

\* api_manager.py line 165: kpi.get("category", "") is None for a KPI without
\* a category, the key being present, and None has no lower()
ComprehensiveVerificationRaises(loan_id) ==
    \E k \in KpiIdsOf(loan_id) : kpis[k].kpi_category = NoneStr

\* api_manager.py line 177: "carbon" in kpi_category or "emission" in kpi_category
CarbonCategory(kpi) == Lower(kpi.kpi_category) \in {"carbon_emissions"}

\* api_manager.py line 177-186, carbon_intensity.py line 172-205:
\* calculate_emissions answers with a dict in either case, without a
\* "verified" key
KpiVerifications(kpi) ==
    IF CarbonCategory(kpi) THEN <<[source |-> "UK Carbon Intensity API"]>> ELSE <<>>

\* api_manager.py line 140-232 with _calculate_verification_summary
run_comprehensive_verification(loan_id) ==
    LET ids == KpiIdsOf(loan_id)
        total_kpis == Cardinality(ids)
        verified_kpis == Cardinality({k \in ids :
                            \E v \in 1..Len(KpiVerifications(kpis[k])) :
                                "verified" \in DOMAIN KpiVerifications(kpis[k])[v]})
        sourced == \E k \in ids : KpiVerifications(kpis[k]) # <<>>
    IN  [ data_sources |-> IF sourced THEN <<"UK Carbon Intensity API">> ELSE <<>>,
          summary |->
            [ total_kpis |-> total_kpis,
              verified_kpis |-> verified_kpis,
              compliance_rate |-> IF total_kpis > 0
                                  THEN Round2(<<verified_kpis * 100, total_kpis>>)
                                  ELSE 0,
              total_verifications |->
                  Cardinality({k \in ids : KpiVerifications(kpis[k]) # <<>>}) ] ]

\* the except branch that forgets the simulated tag
api_verifications_unmarked(loan_id) ==
    IF ComprehensiveVerificationRaises(loan_id)
    THEN <<>>
    ELSE run_comprehensive_verification(loan_id).data_sources

\* line 110-153: the external sources of the run, the simulated tag when the
\* call raised
api_verifications(loan_id) ==
    IF ComprehensiveVerificationRaises(loan_id)
    THEN <<"Simulation (APIs unavailable)">>
    ELSE run_comprehensive_verification(loan_id).data_sources

\* line 144-148: 70% internal, 30% external when an API answered; in hundredths
confidence_score(loan_id, internal) ==
    IF ComprehensiveVerificationRaises(loan_id) THEN internal * Scale
    ELSE LET summary == run_comprehensive_verification(loan_id).summary
         IN  IF summary.total_verifications > 0
             THEN Round2(<<internal * Scale * 7 + summary.compliance_rate * 3,
                           10 * Scale>>)
             ELSE internal * Scale

\* line 167-190
VerificationRow(loan_id, latest, t) ==
    LET verified_count == Cardinality(VerifiedKpis(loan_id, latest))
        breached_count == Cardinality(BreachedKpis(loan_id, latest))
        avg == avg_discrepancy(loan_id, latest)
        status == verification_status(breached_count, avg)
        sources == api_verifications(loan_id)
    IN  [ loan_id |-> loan_id,
          verification_type |-> "multi_source_esg_verification",
          verification_date |-> t,
          status |-> status,
          confidence_score |-> confidence_score(loan_id, internal_confidence(avg)),
          risk_level |-> verification_risk_level(status),
          data_sources |->
              <<[name |-> "Internal ESG Measurements", type |-> "internal"]>>
              \o [i \in 1..Len(sources) |->
                     [name |-> sources[i], type |-> "external_api"]],
          findings |->
              [ verified_count |-> verified_count,
                breached_count |-> breached_count,
                avg_discrepancy |-> Round2(avg),
                total_kpis |-> Cardinality(KpiIdsOf(loan_id)),
                external_sources_used |-> Len(sources),
                api_verification |-> IF sources # <<>> THEN "enabled" ELSE "disabled" ] ]

\* POST /verifications/{loan_id}/run
RunVerification(loan_id, latest) ==
    LET args == [loan_id |-> loan_id]
    IN  IF QueryLoan(loan_id) = <<>>
        THEN /\ last' = Call("run_verification", args, "LoanNotFoundException", <<>>)
             /\ UNCHANGED <<db, now, unchanged_since, sessions, esg_measurements>>
        ELSE IF KpiIdsOf(loan_id) = {}
        THEN /\ last' = Call("run_verification", args, "NoKPIsFoundException", <<>>)
             /\ UNCHANGED <<db, now, unchanged_since, sessions, esg_measurements>>
        ELSE IF DiscrepancyRaises(loan_id, latest)
        THEN /\ last' = Call("run_verification", args, "TypeError", <<>>)
             /\ UNCHANGED <<db, now, unchanged_since, sessions, esg_measurements>>
        ELSE IF VerifiedKpis(loan_id, latest) = {}
        THEN /\ last' = Call("run_verification", args, "NoMeasurementsFoundException", <<>>)
             /\ UNCHANGED <<db, now, unchanged_since, sessions, esg_measurements>>
        ELSE \E row \in {VerificationRow(loan_id, latest, now)} :
             /\ verifications' = Append(verifications, row)
             /\ last' = Call("run_verification", args, "ok",
                             [ verification_id |-> Len(verifications) + 1,
                               verified_count |-> row.findings.verified_count,
                               breached_count |-> row.findings.breached_count,
                               avg_discrepancy |-> row.findings.avg_discrepancy,
                               status |-> row.status,
                               verification_date |-> row.verification_date ])
             /\ UNCHANGED <<loans, kpis, covenants, pricing_history, risk_assessments,
                            sfdr_reports, now, unchanged_since, sessions,
                            esg_measurements>>
----------------------------------------------------------------------------
(* Verification runs of a loan whose KPIs are measured between the runs *)

MaxRuns == 2
MaxMeasurements == 2

\* KPIs of the loan: on track or breached, with a category the API manager
\* looks up, one it does not and none; the target missing and 0.0
VerifiedKpiRows ==
    [ loan_id : {1},
      kpi_name : {"Energy intensity"},
      kpi_category : {"environmental", "carbon_emissions", NoneStr},
      target_value : {Some(10)},
      current_value : {Some(9)},
      baseline_value : {Null},
      status : {"on_track"} ]
    \cup
    [ loan_id : {1},
      kpi_name : {"Energy intensity"},
      kpi_category : {"environmental"},
      target_value : {Some(10)},
      current_value : {Some(9)},
      baseline_value : {Null},
      status : {"breached"} ]
    \cup
    [ loan_id : {1},
      kpi_name : {"Energy intensity"},
      kpi_category : {"environmental"},
      target_value : {Null, Some(0)},
      current_value : {Some(9)},
      baseline_value : {Null},
      status : {"on_track"} ]

\* measured values 0%, 10% and 30% off a target of 10
MeasuredValues == {10, 9, 7}

\* bodies of POST /esg-kpis/{kpi_id}/measurements, dated today: the KPI they
\* name is one that exists, the one of the path or another
MeasurementBodies ==
    {MeasurementBody(k, v, Null, now) : k \in 1..Len(kpis), v \in MeasuredValues}

InitVerify ==
    /\ loans = (1 :> NewLoan(1000, Some(400), Some(200), "active", TRUE, Null))
    /\ kpis \in Tables(VerifiedKpiRows, MaxKpis)
    /\ covenants = <<>>
    /\ verifications = <<>>
    /\ pricing_history = <<>>
    /\ risk_assessments = <<>>
    /\ sfdr_reports = <<>>
    /\ now = 0
    /\ unchanged_since = {}
    /\ sessions = NoSessions
    /\ esg_measurements = <<>>
    /\ last = NoCall

NextVerify ==
    \/ \E kpi_id \in 1..Len(kpis), measurement \in MeasurementBodies :
          /\ Len(esg_measurements) < MaxMeasurements
          /\ CreateMeasurement(kpi_id, measurement)
    \/ \E loan_id \in DOMAIN loans \cup {MaxLoans + 1} :
       \E latest \in LatestChoices(loan_id) :
          /\ Len(verifications) < MaxRuns
          /\ RunVerification(loan_id, latest)
    \/ \E loan_id \in DOMAIN loans :
          /\ risk_assessments = <<>>
          /\ CreateRiskAssessment(loan_id)
    \/ Tick

SpecVerify == InitVerify /\ [][NextVerify]_vars

----------------------------------------------------------------------------
(* C28: when the external comprehensive verification raises during          *)
(* run_verification for a loan that has at least one KPI with a             *)
(* measurement, run_verification still completes: it persists exactly one   *)
(* Verification row whose data_sources carry the internal source and the    *)
(* simulated tag "Simulation (APIs unavailable)", with the status and the   *)
(* confidence score computed from the internal measurements only.           *)

\* the KPIs of the loan that have a measurement
C28_Measured(loan_id) ==
    {k \in 1..Len(kpis) :
        /\ kpis[k].loan_id = loan_id
        /\ \E m \in 1..Len(esg_measurements) : esg_measurements[m].kpi_id = k}

\* the run gets as far as the external call, and the call raises
C28_ExternalRaises(loan_id) ==
    /\ loan_id \in DOMAIN loans
    /\ C28_Measured(loan_id) # {}
    /\ \A k \in C28_Measured(loan_id) : kpis[k].target_value # Null
    /\ \E k \in 1..Len(kpis) :
          kpis[k].loan_id = loan_id /\ kpis[k].kpi_category = NoneStr

\* the sum over the measured KPIs of |measured - target| / target x 100
RECURSIVE C28_Sum(_, _)
C28_Sum(S, latest) ==
    IF S = {} THEN <<0, 1>>
    ELSE LET k == CHOOSE k \in S : TRUE
             t == Val(kpis[k].target_value)
             m == Val(latest[k]).measured_value
         IN  RAdd(IF t = 0 THEN <<0, 1>> ELSE <<Abs(m - t) * 100, Abs(t)>>,
                  C28_Sum(S \ {k}, latest))

\* the average discrepancy, as a fraction
C28_Avg(loan_id, latest) ==
    LET t == C28_Sum(C28_Measured(loan_id), latest)
    IN  <<t[1], t[2] * Cardinality(C28_Measured(loan_id))>>

C28_InternalStatus(loan_id, latest) ==
    IF \E k \in C28_Measured(loan_id) : kpis[k].status = "breached" THEN "breached"
    ELSE IF C28_Avg(loan_id, latest)[1] > 10 * C28_Avg(loan_id, latest)[2] THEN "at_risk"
    ELSE "compliant"

C28_InternalConfidence(loan_id, latest) ==
    LET a == C28_Avg(loan_id, latest)
    IN  IF a[1] < 5 * a[2] THEN 9500
        ELSE IF a[1] < 10 * a[2] THEN 8500
        ELSE IF a[1] < 20 * a[2] THEN 7500
        ELSE 6000

C28_SimulatedSources ==
    << [name |-> "Internal ESG Measurements", type |-> "internal"],
       [name |-> "Simulation (APIs unavailable)", type |-> "external_api"] >>

C28_DegradesToInternal ==
    [][ (last'.op = "run_verification" /\ C28_ExternalRaises(last'.args.loan_id))
        => /\ last'.outcome = "ok"
           /\ Len(verifications') = Len(verifications) + 1
           /\ SubSeq(verifications', 1, Len(verifications)) = verifications
           /\ \E latest \in LatestChoices(last'.args.loan_id) :
                 LET row == verifications'[Len(verifications')]
                 IN  /\ row.loan_id = last'.args.loan_id
                     /\ row.data_sources = C28_SimulatedSources
                     /\ row.status = C28_InternalStatus(last'.args.loan_id, latest)
                     /\ row.confidence_score
                            = C28_InternalConfidence(last'.args.loan_id, latest)
                     /\ last'.result.status = row.status
    ]_vars

\* a run whose external call raised, over measurements 30% off the target
C28_Witness ==
    /\ last.op = "run_verification"
    /\ last.outcome = "ok"
    /\ C28_ExternalRaises(last.args.loan_id)
    /\ verifications[Len(verifications)].data_sources = C28_SimulatedSources
    /\ verifications[Len(verifications)].status = "at_risk"
    /\ verifications[Len(verifications)].confidence_score = 6000

----------------------------------------------------------------------------
(* One loan under every operation that writes it or its KPIs: edits,        *)
(* measurements, recalculations, risk assessments and SFDR reports          *)

\* a KPI 80% of the way from its baseline to its target
StoredKpiRequests ==
    [ loan_id : {1},
      kpi_name : {"Carbon Emissions"},
      kpi_category : {"environmental"},
      target_value : {Some(11)},
      current_value : {Some(9)},
      baseline_value : {Some(1)} ]

\* measurements that put the KPI at 100%, 60% and 10% of the way
StoredMeasuredValues == {11, 7, 2}

\* edits of the loan: of a plain field, and of the status with the derived
\* pricing columns named in the body
StoredUpdateBodies ==
    { [base_margin |-> Some(0)],
      [status |-> "defaulted", esg_performance_score |-> Some(10000),
       pricing_tier |-> "excellent", margin_adjustment |-> Some(-50)] }

InitStored ==
    /\ loans = (1 :> NewLoan(1000, Some(400), Some(200), "active", TRUE, Null))
    /\ kpis = <<>>
    /\ covenants = <<>>
    /\ verifications = <<>>
    /\ pricing_history = <<>>
    /\ risk_assessments = <<>>
    /\ sfdr_reports = <<>>
    /\ now = 0
    /\ unchanged_since = {}
    /\ sessions = NoSessions
    /\ esg_measurements = <<>>
    /\ last = NoCall

NextStored ==
    \/ \E loan_id \in DOMAIN loans, body \in StoredUpdateBodies :
          UpdateLoan(loan_id, LoanUpdate(body))
    \/ \E kpi \in StoredKpiRequests : kpis = <<>> /\ CreateEsgKpi(kpi)
    \/ \E kpi_id \in 1..Len(kpis), measured_value \in StoredMeasuredValues :
          /\ Len(esg_measurements) < MaxMeasurements
          /\ CreateMeasurement(kpi_id, MeasurementBody(kpi_id, measured_value, Null, now))
    \/ \E loan_id \in DOMAIN loans : UpdateLoanPricing(loan_id, ApiCaller)
    \/ \E loan_id \in DOMAIN loans : CreateRiskAssessment(loan_id)
    \/ \E loan_id \in DOMAIN loans, period \in Periods :
          GenerateSfdrReport(loan_id, period)

SpecStored == InitStored /\ [][NextStored]_vars

----------------------------------------------------------------------------
(* C29: in every state reachable by any sequence of pricing                 *)
(* recalculations, risk assessments, SFDR report generations and loan and   *)
(* KPI edits, a loan whose pricing_tier is set has pricing_tier =           *)
(* determine_pricing_tier(esg_performance_score) and margin_adjustment =    *)
(* the adjustment of that tier, also when the KPIs have changed since the   *)
(* last recalculation.                                                      *)

C29_Tier(score) ==
    IF score >= 9000 THEN "excellent"
    ELSE IF score >= 7500 THEN "good"
    ELSE IF score >= 6000 THEN "fair"
    ELSE IF score >= 4000 THEN "poor"
    ELSE "critical"

C29_Adjustment(tier) ==
    CASE tier = "excellent" -> -50
      [] tier = "good" -> -25
      [] tier = "fair" -> 0
      [] tier = "poor" -> 25
      [] tier = "critical" -> 50

C29_StoredPricingAgrees ==
    \A id \in DOMAIN loans :
        loans[id].pricing_tier # NoneStr
        => /\ loans[id].esg_performance_score # Null
           /\ loans[id].pricing_tier = C29_Tier(Val(loans[id].esg_performance_score))
           /\ loans[id].margin_adjustment
                  = Some(C29_Adjustment(loans[id].pricing_tier))

\* a priced loan whose KPIs have since moved it to another tier, and which
\* has been edited and assessed after the recalculation
C29_Witness ==
    /\ 1 \in DOMAIN loans
    /\ loans[1].pricing_tier = "good"
    /\ determine_pricing_tier(calculate_esg_performance_score(1)) = "critical"
    /\ loans[1].status = "defaulted"
    /\ risk_assessments # <<>>
    /\ sfdr_reports # <<>>

----------------------------------------------------------------------------
(* C30: every Verification row created by run_verification has a status in  *)
(* {"compliant", "at_risk", "breached"} and never "failed"; consequently,   *)
(* for a loan whose Verification rows were all created by run_verification, *)
(* the verification sub-indicator of calculate_financial_risk_score is 0    *)
(* after any number of verification runs, including runs that found         *)
(* breached KPIs.                                                           *)

C30_RunStatuses == {"compliant", "at_risk", "breached"}

\* the rows of the loan, every one of them written by run_verification
C30_RowsOf(loan_id) ==
    {i \in 1..Len(verifications) : verifications[i].loan_id = loan_id}

C30_Assessed == last.op = "create_risk_assessment" /\ last.outcome = "ok"

\* the indicators next to the verification indicator: the status lookup and,
\* for a loan with a maturity date, the maturity bucket
C30_OtherIndicators(loan) ==
    << (CASE loan.status = "active" -> 20
          [] loan.status = "under_review" -> 40
          [] loan.status = "at_risk" -> 70
          [] loan.status = "defaulted" -> 100
          [] loan.status = "restructured" -> 60
          [] OTHER -> 50) >>
    \o (IF loan.maturity_date = Null THEN <<>>
        ELSE IF Val(loan.maturity_date) - now < 30 THEN <<80>>
        ELSE IF Val(loan.maturity_date) - now < 90 THEN <<50>>
        ELSE <<20>>)

\* the financial risk score with a verification indicator of 0, in hundredths
C30_ScoreWithZeroIndicator(loan) ==
    Round2(<<SumSeq(C30_OtherIndicators(loan)) + 0,
             Len(C30_OtherIndicators(loan)) + 1>>)

C30_RunsNeverFail ==
    /\ \A i \in 1..Len(verifications) : verifications[i].status \in C30_RunStatuses
    /\ (last.op = "run_verification" /\ last.outcome = "ok")
           => last.result.status \in C30_RunStatuses
    /\ (C30_Assessed /\ C30_RowsOf(last.args.loan_id) # {})
           => last.result.financial_risk_score
                  = C30_ScoreWithZeroIndicator(loans[last.args.loan_id])

\* a risk assessment of a loan after a run that found a breached KPI
C30_Witness ==
    /\ C30_Assessed
    /\ \E i \in C30_RowsOf(last.args.loan_id) :
          /\ verifications[i].status = "breached"
          /\ verifications[i].findings.breached_count > 0
    /\ last.result.financial_risk_score = 1000

====
